---- MODULE Spec2Model ----
(***************************************************************************)
(* Model of the submission pipeline of aiagents-directory:                 *)
(*   - the AgentSubmission / Agent tables (agents/models.py),              *)
(*   - EnrichmentService.enrich_submission / create_agent_from_submission  *)
(*     (auto_directory/services/enrichment.py),                            *)
(*   - ReviewService.review_submission (auto_directory/services/review.py),*)
(*   - the admin views and management commands that approve and reject.    *)
(*                                                                         *)
(* Text is modelled as a sequence of one-character strings, a URL as a     *)
(* record of its scheme, host labels, path segments and trailing slash.    *)
(* Confidences are integers in percent (0.7 is 70).                        *)
(***************************************************************************)
EXTENDS Integers, Sequences, FiniteSets, TLC

(***************************************************************************)
(* Bounds of the model.                                                    *)
(***************************************************************************)
MaxSubs == 2            \* rows of the submission table in the directory models
MaxLifecycleSubs == 1   \* rows of the submission table in the lifecycle model
NumProcs == 2           \* requests in flight at once

(***************************************************************************)
(* Text: str.lower(), django.utils.text.slugify                            *)
(***************************************************************************)
UpperChars == {"Z", "F"}

LowerChar(c) ==
    CASE c = "Z" -> "z"
      [] c = "F" -> "f"
      [] OTHER -> c

Lower(s) == [i \in 1..Len(s) |-> LowerChar(s[i])]

\* \w of the regular expression: letters, digits and the underscore
IsWordChar(c) == c \in {"z", "f", "b", "Z", "F", "_"}

IsSepChar(c) == c \in {" ", "-"}

RECURSIVE KeepSlugChars(_)
\* re.sub(r'[^\w\s-]', '', value.lower())
KeepSlugChars(s) ==
    IF s = <<>> THEN <<>>
    ELSE IF IsWordChar(Head(s)) \/ IsSepChar(Head(s))
         THEN <<Head(s)>> \o KeepSlugChars(Tail(s))
         ELSE KeepSlugChars(Tail(s))

RECURSIVE CollapseSeps(_)
\* re.sub(r'[-\s]+', '-', value)
CollapseSeps(s) ==
    IF s = <<>> THEN <<>>
    ELSE IF IsSepChar(Head(s))
         THEN IF Len(s) > 1 /\ IsSepChar(s[2])
              THEN CollapseSeps(Tail(s))
              ELSE <<"-">> \o CollapseSeps(Tail(s))
         ELSE <<Head(s)>> \o CollapseSeps(Tail(s))

RECURSIVE StripLeft(_, _)
StripLeft(s, cs) ==
    IF s # <<>> /\ Head(s) \in cs THEN StripLeft(Tail(s), cs) ELSE s

RECURSIVE StripRight(_, _)
StripRight(s, cs) ==
    IF s # <<>> /\ s[Len(s)] \in cs
    THEN StripRight(SubSeq(s, 1, Len(s) - 1), cs)
    ELSE s

slugify(name) ==
    StripRight(StripLeft(CollapseSeps(KeepSlugChars(Lower(name))), {"-", "_"}), {"-", "_"})

\* name__iexact of the ORM
IExact(a, b) == Lower(a) = Lower(b)

(***************************************************************************)
(* URLs                                                                    *)
(***************************************************************************)
LowerLabel(l) ==
    CASE l = "Foo" -> "foo"
      [] l = "WWW" -> "www"
      [] l = "Companies" -> "companies"
      [] OTHER -> l

LowerLabels(ls) == [i \in 1..Len(ls) |-> LowerLabel(ls[i])]

Url(scheme, host, path, slash) ==
    [scheme |-> scheme, host |-> host, path |-> path, slash |-> slash]

\* url.startswith(("http://", "https://"))
HasHttpScheme(u) == u.scheme \in {"http", "https"}

RECURSIVE JoinWith(_, _)
\* the tokens of sep.join(parts)
JoinWith(parts, sep) ==
    IF parts = <<>> THEN <<>>
    ELSE IF Len(parts) = 1 THEN <<parts[1]>>
    ELSE <<parts[1], sep>> \o JoinWith(Tail(parts), sep)

RECURSIVE PathTokens(_)
\* "/a/b" as tokens
PathTokens(segs) ==
    IF segs = <<>> THEN <<>> ELSE <<"/", Head(segs)>> \o PathTokens(Tail(segs))

\* host.startswith("www."): the first label is www and a dot follows it
StripWww(labels) ==
    IF Len(labels) > 1 /\ labels[1] = "www" THEN Tail(labels) ELSE labels

normalize_url(u) ==
    LET host == LowerLabels(u.host)
        segs == LowerLabels(u.path)
        \* parsed.path of a URL without a scheme holds the host too
        hasSlash == segs # <<>> \/ u.slash
    IN  IF host = <<>> THEN <<>>
        ELSE IF HasHttpScheme(u)
        THEN JoinWith(StripWww(host), ".") \o PathTokens(segs)
        ELSE IF hasSlash
        THEN JoinWith(StripWww(host), ".")
                 \o (IF segs = <<>> THEN <<"/">> ELSE PathTokens(segs))
        ELSE JoinWith(StripWww(host), ".") \o JoinWith(host, ".")

\* filters._get_domain
get_domain(u) == StripWww(LowerLabels(u.host))

IsSuffix(suf, s) ==
    /\ Len(suf) <= Len(s)
    /\ SubSeq(s, Len(s) - Len(suf) + 1, Len(s)) = suf

\* filters._domain_matches: both "*.base" and "base" match base and its subdomains
domain_matches(domain, pattern) ==
    /\ domain # <<>>
    /\ pattern.base # <<>>
    /\ IsSuffix(LowerLabels(pattern.base), LowerLabels(domain))

\* settings.AUTO_DIRECTORY_AGGREGATOR_DOMAINS
AggregatorDomains == { [wildcard |-> TRUE, base |-> <<"yc", "com">>] }

is_aggregator_url(u) ==
    \E p \in AggregatorDomains : domain_matches(get_domain(u), p)

(***************************************************************************)
(* The values the model draws its inputs from                              *)
(***************************************************************************)
NameZf == <<"Z", "f">>
NameLowerZf == <<"z", "f">>
NameSpaced == <<"z", " ", "f">>
NameHyphen == <<"z", "-", "f">>

Names == {NameZf, NameLowerZf, NameSpaced, NameHyphen}

UrlFoo == Url("https", <<"foo", "ai">>, <<>>, FALSE)
UrlFooWww == Url("http", <<"www", "Foo", "ai">>, <<>>, TRUE)
UrlAggregator == Url("https", <<"yc", "com">>, <<"companies", "foo">>, FALSE)
UrlNoScheme == Url("", <<"foo", "ai">>, <<>>, FALSE)

Websites == {UrlFoo, UrlFooWww, UrlAggregator}

PENDING == "PENDING"
APPROVED == "APPROVED"
REJECTED == "REJECTED"

NoAgent == 0
NoUser == "none"
AdminUser == "admin"

\* ReviewService.CONFIDENCE_THRESHOLD, in percent
CONFIDENCE_THRESHOLD == 70
\* ReviewService() is built without a threshold by every caller
NoThreshold == -1
\* minimum confidence of an accepted aggregator extraction, in percent
ExtractionMinConfidence == 50

Confidences == {50, 70, 90}
Decisions == {"approved", "rejected", "needs_review"}

\* descriptions: the one the submitter typed, and two the extraction can return,
\* the first of which holds the name "Zf" in another case
DescSubmitted == <<"d">>
DescWithName == <<"a", " ", "z", "F">>
DescOther == <<"a", "b">>

\* the slice of the short description in create_agent_from_submission
ShortDescriptionLength == 250

\* the slice of a corrected name in enrich_submission
AgentNameLength == 200

\* what review_agent.run_sync does: raises, or returns a ReviewResult
GatewayOutcomes ==
    {[kind |-> "raise", decision |-> "needs_review", confidence |-> 0]}
    \cup [kind : {"ok"}, decision : Decisions, confidence : Confidences]

\* what client.scrape does for the main scrape: raises, returns None, or a page
ScrapeOutcomes ==
    {[kind |-> "raise", features |-> 0], [kind |-> "none", features |-> 0]}
    \cup [kind : {"ok"}, features : {0, 1}]

\* what client.scrape does for the aggregator extraction
ExtractOutcomes ==
    {[kind |-> "raise", product_website |-> UrlNoScheme, confidence |-> 0],
     [kind |-> "none", product_website |-> UrlNoScheme, confidence |-> 0]}
    \cup [kind : {"json"}, product_website : {UrlFoo, UrlNoScheme},
          confidence : {40, 50}]

(***************************************************************************)
(* State                                                                   *)
(***************************************************************************)
VARIABLES
    subs,       \* the AgentSubmission table: row i is the submission with pk i
    agents,     \* the Agent table: row i is the agent with pk i
    childRows,  \* pks of the agents that have Feature/UseCase/Category rows
    procs,      \* requests in flight: position and the submission held in memory
    last,       \* outcome of the latest handler: exception raised, message shown
    sourcingRuns, \* the SourcingRun table and the sourcing run in flight
    probe,      \* a URL, a configuration and the classification computed for them
    enrichmentLogs \* the EnrichmentLog table: row i is the log with pk i

vars == <<subs, agents, childRows, procs, last, sourcingRuns, probe, enrichmentLogs>>

SubIds == 1..Len(subs)
AgentIds == 1..Len(agents)
Procs == 1..NumProcs

\* EnrichmentResult.to_dict() as stored in AgentSubmission.enrichment_data;
\* present = FALSE is the NULL column
NoUrlExtraction == [extraction_performed |-> FALSE,
                    original_url |-> UrlNoScheme, extracted_url |-> UrlNoScheme]

\* enrichment_data["_sourcing_metadata"]; url_classification "none" is the
\* missing key
NoSourcingMetadata == [url_classification |-> "none", source_id |-> ""]

\* a key of content_data, the JSON Firecrawl extracted: missing, null, or a text
AbsentValue == [kind |-> "absent", text |-> <<>>]
NullValue == [kind |-> "null", text |-> <<>>]
TextValue(t) == [kind |-> "text", text |-> t]
BoolValue(b) == [kind |-> "bool", text |-> <<>>, bool |-> b]

\* enrichment_data["_name_verification"]; present = FALSE is the missing key
NoNameVerification == [present |-> FALSE, matches |-> TRUE, should_update |-> FALSE]

NullEnrichment ==
    [present |-> FALSE, scraped |-> FALSE, success |-> FALSE, error_message |-> "",
     features |-> 0, url_extraction |-> NoUrlExtraction,
     sourcing_metadata |-> NoSourcingMetadata,
     short_description |-> AbsentValue, description |-> AbsentValue,
     is_open_source |-> AbsentValue,
     name_verification |-> NoNameVerification]

\* ReviewResult.model_dump() as stored in AgentSubmission.ai_review_result
NullReview ==
    [present |-> FALSE, decision |-> "", confidence |-> 0,
     flags |-> {}, auto_applied |-> FALSE]

\* AgentSubmission defaults
NewSubmission(name, website, source) ==
    [agent_name |-> name, agent_website |-> website, source |-> source,
     agent_description |-> DescSubmitted,
     status |-> PENDING, agent |-> NoAgent,
     enrichment_data |-> NullEnrichment, ai_review_result |-> NullReview,
     needs_manual_review |-> FALSE,
     reviewer |-> NoUser, reviewer_notes |-> "", reviewed_at |-> FALSE]

\* Model.save(update_fields=fields): only the named columns are written
SaveFields(row, mem, fields) ==
    [f \in DOMAIN row |-> IF f \in fields THEN mem[f] ELSE row[f]]

Idle == [pc |-> "idle", op |-> "", sid |-> 0, mem |-> NewSubmission(<<>>, UrlNoScheme, ""),
         agent |-> NoAgent]

\* what the latest handler was, on which submission, the exception it met and the
\* agent the exception carries; for a review, whether it ran with auto_apply;
\* for the enrich command, whether it ran with --force
NoOutcome == [op |-> "", sid |-> 0, error |-> "none", existing |-> NoAgent,
              auto_apply |-> FALSE, force |-> FALSE]

Outcome(op, sid, error, existing) ==
    [op |-> op, sid |-> sid, error |-> error, existing |-> existing,
     auto_apply |-> FALSE, force |-> FALSE]

ReviewOutcome(sid, auto_apply) ==
    [Outcome("review", sid, "none", NoAgent) EXCEPT !.auto_apply = auto_apply]

\* no sourcing run yet, none in flight
NoSourcing == [runs |-> <<>>, pc |-> "idle", auto_enrich |-> FALSE, created |-> <<>>]

\* nothing classified
NoProbe == [tag |-> "none"]

Init ==
    /\ subs = <<>>
    /\ agents = <<>>
    /\ childRows = {}
    /\ procs = [p \in Procs |-> Idle]
    /\ last = NoOutcome
    /\ sourcingRuns = NoSourcing
    /\ probe = NoProbe
    /\ enrichmentLogs = <<>>

(***************************************************************************)
(* EnrichmentService                                                       *)
(***************************************************************************)
\* response.json[key] of a scrape outcome: the outcomes that extracted no such
\* key do not carry it
JsonKey(scrape, key) ==
    IF key \in DOMAIN scrape THEN scrape[key] ELSE AbsentValue

\* enrich without its except clause and its check of the response: every scrape
\* is taken for a page
enrich_ignoring_failure(scrape) ==
    [NullEnrichment EXCEPT !.present = TRUE, !.scraped = TRUE,
                           !.success = TRUE, !.features = scrape.features]

\* EnrichmentService.enrich followed by EnrichmentResult.to_dict
enrich(scrape) ==
    CASE scrape.kind = "raise" ->
            [NullEnrichment EXCEPT !.present = TRUE, !.scraped = TRUE,
                                   !.error_message = "Firecrawl scrape failed"]
      [] scrape.kind = "none" ->
            [NullEnrichment EXCEPT !.present = TRUE, !.scraped = TRUE,
                                   !.error_message = "No response from Firecrawl"]
      [] OTHER ->
            [NullEnrichment EXCEPT !.present = TRUE, !.scraped = TRUE,
                                   !.success = TRUE, !.features = scrape.features,
                                   !.short_description = JsonKey(scrape, "short_description"),
                                   !.description = JsonKey(scrape, "description"),
                                   !.is_open_source = JsonKey(scrape, "is_open_source")]

\* an extraction accepted whatever its confidence
extract_product_url_any_confidence(extract) ==
    IF extract.kind = "json" /\ HasHttpScheme(extract.product_website)
    THEN [found |-> TRUE, url |-> extract.product_website]
    ELSE [found |-> FALSE, url |-> UrlNoScheme]

\* EnrichmentService._extract_product_url_from_aggregator: found = FALSE is None
extract_product_url_from_aggregator(extract) ==
    IF /\ extract.kind = "json"
       /\ extract.confidence >= ExtractionMinConfidence
       /\ HasHttpScheme(extract.product_website)
    THEN [found |-> TRUE, url |-> extract.product_website]
    ELSE [found |-> FALSE, url |-> UrlNoScheme]

\* the fields enrich_submission writes with save(update_fields=...)
EnrichSavedFields == {"enrichment_data", "agent_name", "agent_website"}

\* enrich_submission up to the main scrape: the submission object in memory
\* once the aggregator extraction has been applied to its website
enrich_submission_extract(sub, extract) ==
    LET original_url == sub.agent_website
        sourcing == IF sub.enrichment_data.present
                    THEN sub.enrichment_data.sourcing_metadata ELSE NoSourcingMetadata
        \* sourcing_metadata.get("is_aggregator"), set with the aggregator tag
        extracted == IF \/ is_aggregator_url(original_url)
                        \/ sourcing.url_classification = "aggregator"
                     THEN extract_product_url_from_aggregator(extract)
                     ELSE [found |-> FALSE, url |-> UrlNoScheme]
        url_to_enrich == IF extracted.found /\ extracted.url # original_url
                         THEN extracted.url ELSE original_url
    IN  [sub EXCEPT !.agent_website = url_to_enrich]

\* text[:n]
Truncate(text, n) == SubSeq(text, 1, IF Len(text) < n THEN Len(text) ELSE n)

\* needle in haystack, for two strings
Contains(haystack, needle) ==
    \E i \in 1..(Len(haystack) - Len(needle) + 1) :
        SubSeq(haystack, i, i + Len(needle) - 1) = needle

\* bool(value) of content_data.get(key, ""): a missing key, null and "" are falsy
Truthy(value) == value.kind = "text" /\ value.text # <<>>

\* bool(result.content_data): the extracted JSON has a key
HasContent(result) ==
    \/ result.features > 0
    \/ result.short_description.kind # "absent"
    \/ result.description.kind # "absent"

\* a name verification that corrects the name from the description
verify_agent_name_correcting(submitted_name, short_desc) ==
    LET submitted_lower == StripRight(StripLeft(Lower(submitted_name), {" "}), {" "})
        mismatch == Truthy(short_desc) /\ ~Contains(Lower(short_desc.text), submitted_lower)
    IN  [present |-> TRUE, matches |-> ~mismatch, should_update |-> mismatch,
         extracted_name |-> IF mismatch THEN short_desc.text ELSE <<>>]

\* EnrichmentService._verify_agent_name; extracted_name <<>> is None
verify_agent_name(submitted_name, short_desc) ==
    LET submitted_lower == StripRight(StripLeft(Lower(submitted_name), {" "}), {" "})
        mismatch == Truthy(short_desc) /\ ~Contains(Lower(short_desc.text), submitted_lower)
    IN  [present |-> TRUE, matches |-> ~mismatch, should_update |-> FALSE,
         extracted_name |-> <<>>]

\* enrich_submission from the main scrape on: mem is the submission in memory,
\* original_url the website it had when enrich_submission was entered
enrich_submission_scrape(original_url, mem, scrape) ==
    LET url_to_enrich == mem.agent_website
        sourcing == IF mem.enrichment_data.present
                    THEN mem.enrichment_data.sourcing_metadata ELSE NoSourcingMetadata
        result == enrich(scrape)
        with_extraction ==
            IF original_url # url_to_enrich
            THEN [result EXCEPT !.url_extraction =
                     [extraction_performed |-> TRUE,
                      original_url |-> original_url, extracted_url |-> url_to_enrich]]
            ELSE result
        with_sourcing == [with_extraction EXCEPT !.sourcing_metadata = sourcing]
        verified == result.success /\ HasContent(result)
        name_info == verify_agent_name(mem.agent_name, result.short_description)
        enrichment_dict ==
            IF verified
            THEN [with_sourcing EXCEPT !.name_verification =
                     [present |-> TRUE, matches |-> name_info.matches,
                      should_update |-> name_info.should_update]]
            ELSE with_sourcing
        agent_name == IF /\ verified
                         /\ name_info.should_update
                         /\ name_info.extracted_name # <<>>
                      THEN Truncate(name_info.extracted_name, AgentNameLength)
                      ELSE mem.agent_name
    IN  [mem EXCEPT !.enrichment_data = enrichment_dict, !.agent_name = agent_name]

\* EnrichmentService.enrich_submission: the submission object after the call
enrich_submission(sub, extract, scrape) ==
    enrich_submission_scrape(sub.agent_website,
                             enrich_submission_extract(sub, extract), scrape)

\* content.get(key, default): the default only for a missing key, a null stays
content_get(value, default) ==
    IF value.kind = "absent" THEN TextValue(default) ELSE value

\* the row Agent.objects.create is given, followed by Agent.save: an empty slug
\* is filled in from the name
NewAgent(sub, sid) ==
    [name |-> sub.agent_name, website |-> sub.agent_website,
     slug |-> slugify(sub.agent_name), submission |-> sid,
     short_description |->
         Truncate(content_get(sub.enrichment_data.short_description,
                              sub.agent_description).text, ShortDescriptionLength),
     description |-> content_get(sub.enrichment_data.description,
                                 sub.agent_description).text,
     \* content.get("is_open_source"): None for a missing key
     is_open_source |-> IF sub.enrichment_data.is_open_source.kind = "absent"
                        THEN NullValue ELSE sub.enrichment_data.is_open_source]

\* the first of the rows a filter matches, or NoAgent: QuerySet.first()
First(ids) ==
    IF ids = {} THEN NoAgent ELSE CHOOSE i \in ids : \A j \in ids : i <= j

\* _check_for_duplicate_agent without its check of the website
check_for_duplicate_agent_by_name_only(sub, table) ==
    LET SameName == {i \in 1..Len(table) : IExact(table[i].name, sub.agent_name)}
        SameSlug == {i \in 1..Len(table) : table[i].slug = slugify(sub.agent_name)}
    IN  IF First(SameName) # NoAgent THEN First(SameName)
        ELSE First(SameSlug)

\* EnrichmentService._check_for_duplicate_agent: the existing agent that makes
\* it raise DuplicateAgentError, or NoAgent when it returns
check_for_duplicate_agent(sub, table) ==
    LET SameWebsite == {i \in 1..Len(table) : table[i].website = sub.agent_website}
        SameName == {i \in 1..Len(table) : IExact(table[i].name, sub.agent_name)}
        SameSlug == {i \in 1..Len(table) : table[i].slug = slugify(sub.agent_name)}
    IN  IF First(SameWebsite) # NoAgent THEN First(SameWebsite)
        ELSE IF First(SameName) # NoAgent THEN First(SameName)
        ELSE First(SameSlug)

\* an Agent table without unique columns
UniqueViolation_unenforced(a, table) == FALSE

\* the unique=True columns of Agent (name, slug, website), enforced on INSERT
UniqueViolation(a, table) ==
    \E i \in 1..Len(table) :
        \/ table[i].name = a.name
        \/ table[i].slug = a.slug
        \/ table[i].website = a.website

\* where an approval can break down: nowhere, at Agent.objects.create, at the
\* child rows, or at the save of the submission
Faults == {"none", "create", "children", "save"}

\* create_agent_from_submission up to the duplicate check, all of it before
\* transaction.atomic(): the exception raised ("none" when it goes on) and the
\* agent a DuplicateAgentError carries
approval_precheck(sub, table) ==
    LET dup == check_for_duplicate_agent(sub, table)
    IN  IF ~sub.enrichment_data.present
        THEN [error |-> "EnrichmentError", existing |-> NoAgent]
        ELSE IF ~sub.enrichment_data.success
        THEN [error |-> "EnrichmentError", existing |-> NoAgent]
        ELSE IF dup # NoAgent
        THEN [error |-> "DuplicateAgentError", existing |-> dup]
        ELSE [error |-> "none", existing |-> NoAgent]

\* the block of create_agent_from_submission under transaction.atomic(): the
\* agent row and its child rows, or nothing at all when it fails
create_agent_rows(sub, sid, table, children, fault) ==
    LET agent == NewAgent(sub, sid)
        pk == Len(table) + 1
        content == sub.enrichment_data
    IN  IF content_get(content.short_description, sub.agent_description).kind = "null"
        THEN \* None[:250]
             [error |-> "TypeError", agent |-> NoAgent,
              agents |-> table, childRows |-> children]
        ELSE IF content_get(content.description, sub.agent_description).kind = "null"
        THEN \* description is a NOT NULL column
             [error |-> "IntegrityError", agent |-> NoAgent,
              agents |-> table, childRows |-> children]
        ELSE IF UniqueViolation(agent, table)
        THEN [error |-> "IntegrityError", agent |-> NoAgent,
              agents |-> table, childRows |-> children]
        ELSE IF fault \in {"create", "children"}
        THEN [error |-> "DatabaseError", agent |-> NoAgent,
              agents |-> table, childRows |-> children]
        ELSE [error |-> "none", agent |-> pk,
              agents |-> Append(table, agent),
              childRows |-> IF sub.enrichment_data.features > 0
                            THEN children \cup {pk} ELSE children]

\* EnrichmentService.create_agent_from_submission on the agent table `table`:
\* the exception it raises ("none" when it returns) and the tables afterwards
create_agent_from_submission(sub, sid, table, children, fault) ==
    LET pre == approval_precheck(sub, table)
        rows == create_agent_rows(sub, sid, table, children, fault)
    IN  IF pre.error # "none"
        THEN [error |-> pre.error, existing |-> pre.existing, agent |-> NoAgent,
              agents |-> table, childRows |-> children]
        ELSE rows @@ [existing |-> NoAgent]

(***************************************************************************)
(* ReviewService                                                           *)
(***************************************************************************)
\* ReviewService.__init__: confidence_threshold or CONFIDENCE_THRESHOLD
EffectiveThreshold(arg) ==
    IF arg = NoThreshold \/ arg = 0 THEN CONFIDENCE_THRESHOLD ELSE arg

\* review without its except clause mapping: whatever the gateway call left
\* behind is taken for its result
review_unguarded(gateway) ==
    [present |-> TRUE, decision |-> gateway.decision,
     confidence |-> gateway.confidence, flags |-> {}, auto_applied |-> FALSE]

\* ReviewService.review: a gateway failure becomes a needs_review result
review(gateway) ==
    IF gateway.kind = "raise"
    THEN [present |-> TRUE, decision |-> "needs_review", confidence |-> 0,
          flags |-> {"review_error"}, auto_applied |-> FALSE]
    ELSE [present |-> TRUE, decision |-> gateway.decision,
          confidence |-> gateway.confidence, flags |-> {}, auto_applied |-> FALSE]

needs_manual(result, threshold) == result.confidence < EffectiveThreshold(threshold)

\* should_apply without the confidence gate
should_apply_ungated(result, auto_apply, threshold) ==
    /\ auto_apply
    /\ result.decision \in {"approved", "rejected"}

should_apply(result, auto_apply, threshold) ==
    /\ auto_apply
    /\ ~needs_manual(result, threshold)
    /\ result.decision \in {"approved", "rejected"}

\* ReviewService.review_submission: the submission it saves with save()
review_submission(sub, auto_apply, gateway, threshold) ==
    LET result == review(gateway)
        apply == should_apply(result, auto_apply, threshold)
    IN  [sub EXCEPT
            !.ai_review_result = [result EXCEPT !.auto_applied = apply],
            !.needs_manual_review = needs_manual(result, threshold),
            !.status = IF apply
                       THEN (IF result.decision = "approved" THEN APPROVED ELSE REJECTED)
                       ELSE @]

(***************************************************************************)
(* Handlers, each as one step                                              *)
(***************************************************************************)
SetSub(sid, row) == subs' = [subs EXCEPT ![sid] = row]

\* AgentSubmissionView: the public form creates a PENDING submission
SubmitForm(name, website) ==
    /\ Len(subs) < MaxSubs
    /\ subs' = Append(subs, NewSubmission(name, website, "FORM"))
    /\ last' = Outcome("submit", Len(subs) + 1, "none", NoAgent)
    /\ UNCHANGED <<agents, childRows, procs>>
    /\ UNCHANGED <<sourcingRuns, probe, enrichmentLogs>>

\* enrich_submission_task and the admin's enrich view and action: any submission
EnrichAny(sid, extract, scrape) ==
    /\ sid \in SubIds
    /\ SetSub(sid, SaveFields(subs[sid], enrich_submission(subs[sid], extract, scrape),
                              EnrichSavedFields))
    /\ last' = Outcome("enrich", sid, "none", NoAgent)
    /\ UNCHANGED <<agents, childRows, procs>>
    /\ UNCHANGED <<sourcingRuns, probe, enrichmentLogs>>

\* manage.py enrich_submissions: PENDING, and not yet enriched unless --force
EnrichCommand(sid, force, extract, scrape) ==
    /\ sid \in SubIds
    /\ subs[sid].status = PENDING
    /\ force \/ ~subs[sid].enrichment_data.present
    /\ SetSub(sid, SaveFields(subs[sid], enrich_submission(subs[sid], extract, scrape),
                              EnrichSavedFields))
    /\ last' = [Outcome("enrich", sid, "none", NoAgent) EXCEPT !.force = force]
    /\ UNCHANGED <<agents, childRows, procs>>
    /\ UNCHANGED <<sourcingRuns, probe, enrichmentLogs>>

\* manage.py review_submissions: PENDING, enriched, not yet reviewed unless --force
ReviewCommand(sid, auto_apply, force, gateway) ==
    /\ sid \in SubIds
    /\ subs[sid].status = PENDING
    /\ subs[sid].enrichment_data.present
    /\ force \/ ~subs[sid].ai_review_result.present
    /\ SetSub(sid, review_submission(subs[sid], auto_apply, gateway, NoThreshold))
    /\ last' = ReviewOutcome(sid, auto_apply)
    /\ UNCHANGED <<agents, childRows, procs>>
    /\ UNCHANGED <<sourcingRuns, probe, enrichmentLogs>>

\* review_submissions_batch_task: every listed submission that has enrichment data
ReviewTask(sid, auto_apply, gateway) ==
    /\ sid \in SubIds
    /\ subs[sid].enrichment_data.present
    /\ SetSub(sid, review_submission(subs[sid], auto_apply, gateway, NoThreshold))
    /\ last' = ReviewOutcome(sid, auto_apply)
    /\ UNCHANGED <<agents, childRows, procs>>
    /\ UNCHANGED <<sourcingRuns, probe, enrichmentLogs>>

\* the admin's review view and action: any submission, auto_apply=False
AdminReview(sid, gateway) ==
    /\ sid \in SubIds
    /\ SetSub(sid, review_submission(subs[sid], FALSE, gateway, NoThreshold))
    /\ last' = ReviewOutcome(sid, FALSE)
    /\ UNCHANGED <<agents, childRows, procs>>
    /\ UNCHANGED <<sourcingRuns, probe, enrichmentLogs>>

\* the submission an approving admin marks: status, agent, reviewer, reviewed_at
MarkApproved(sub, agent, user) ==
    [sub EXCEPT !.status = APPROVED, !.agent = agent,
                !.reviewer = user, !.reviewed_at = TRUE]

\* AgentSubmissionAdmin.approve_single_submission and, per selected PENDING
\* submission, approve_and_create_agent: everything under one transaction.atomic()
AdminApprove(sid, extract, scrape, fault) ==
    /\ sid \in SubIds
    /\ LET row == subs[sid]
           enriched == IF ~row.enrichment_data.present
                       THEN SaveFields(row, enrich_submission(row, extract, scrape),
                                       EnrichSavedFields)
                       ELSE row
           res == create_agent_from_submission(enriched, sid, agents, childRows, fault)
       IN  IF row.status # PENDING
           THEN /\ last' = Outcome("approve", sid, "NotPending", NoAgent)
                /\ UNCHANGED <<subs, agents, childRows>>
           ELSE IF ~enriched.enrichment_data.success
           THEN \* the view returns inside the atomic block: the enrichment is kept
                /\ SetSub(sid, enriched)
                /\ last' = Outcome("approve", sid, "EnrichmentFailed", NoAgent)
                /\ UNCHANGED <<agents, childRows>>
           ELSE IF res.error # "none"
           THEN \* the exception leaves the atomic block: all of it is rolled back
                /\ last' = Outcome("approve", sid, res.error, res.existing)
                /\ UNCHANGED <<subs, agents, childRows>>
           ELSE IF fault = "save"
           THEN /\ last' = Outcome("approve", sid, "DatabaseError", NoAgent)
                /\ UNCHANGED <<subs, agents, childRows>>
           ELSE /\ agents' = res.agents
                /\ childRows' = res.childRows
                /\ SetSub(sid, MarkApproved(enriched, res.agent, AdminUser))
                /\ last' = Outcome("approve", sid, "none", NoAgent)
    /\ UNCHANGED procs
    /\ UNCHANGED <<sourcingRuns, probe, enrichmentLogs>>

\* manage.py approve_submissions: PENDING and, unless --skip-review-check,
\* approved by the AI review; no transaction around the two writes
ApproveCommand(sid, skip_review_check, fault) ==
    /\ sid \in SubIds
    /\ subs[sid].status = PENDING
    /\ skip_review_check \/ (/\ subs[sid].ai_review_result.present
                             /\ subs[sid].ai_review_result.decision = "approved")
    /\ LET row == subs[sid]
           res == create_agent_from_submission(row, sid, agents, childRows, fault)
       IN  IF res.error = "DuplicateAgentError"
           THEN \* auto-reject the duplicate
                /\ SetSub(sid, SaveFields(row,
                       [row EXCEPT !.status = REJECTED,
                                   !.reviewer_notes = "Auto-rejected",
                                   !.reviewed_at = TRUE],
                       {"status", "reviewer_notes", "reviewed_at"}))
                /\ last' = Outcome("approve", sid, res.error, res.existing)
                /\ UNCHANGED <<agents, childRows>>
           ELSE IF res.error # "none"
           THEN /\ last' = Outcome("approve", sid, res.error, NoAgent)
                /\ UNCHANGED <<subs, agents, childRows>>
           ELSE /\ agents' = res.agents
                /\ childRows' = res.childRows
                /\ IF fault = "save"
                   THEN /\ last' = Outcome("approve", sid, "DatabaseError", NoAgent)
                        /\ UNCHANGED subs
                   ELSE /\ SetSub(sid, SaveFields(row,
                               [row EXCEPT !.status = APPROVED, !.agent = res.agent,
                                           !.reviewed_at = TRUE],
                               {"status", "agent", "reviewed_at"}))
                        /\ last' = Outcome("approve", sid, "none", NoAgent)
    /\ UNCHANGED procs
    /\ UNCHANGED <<sourcingRuns, probe, enrichmentLogs>>

\* AgentSubmissionAdmin.reject_single_submission
AdminRejectSingle(sid) ==
    /\ sid \in SubIds
    /\ IF subs[sid].status # PENDING
       THEN /\ last' = Outcome("reject", sid, "NotPending", NoAgent)
            /\ UNCHANGED subs
       ELSE /\ SetSub(sid, [subs[sid] EXCEPT !.status = REJECTED,
                                             !.reviewer = AdminUser,
                                             !.reviewed_at = TRUE])
            /\ last' = Outcome("reject", sid, "none", NoAgent)
    /\ UNCHANGED <<agents, childRows, procs>>
    /\ UNCHANGED <<sourcingRuns, probe, enrichmentLogs>>

\* AgentSubmissionAdmin.reject_submission: one UPDATE of the selected PENDING rows
AdminRejectBulk(selected) ==
    /\ selected \subseteq SubIds
    /\ selected # {}
    /\ subs' = [i \in SubIds |->
                   IF i \in selected /\ subs[i].status = PENDING
                   THEN [subs[i] EXCEPT !.status = REJECTED,
                                        !.reviewed_at = TRUE,
                                        !.reviewer = AdminUser]
                   ELSE subs[i]]
    /\ last' = Outcome("reject", 0, "none", NoAgent)
    /\ UNCHANGED <<agents, childRows, procs>>
    /\ UNCHANGED <<sourcingRuns, probe, enrichmentLogs>>

\* manage.py reject_submissions: PENDING and, unless --skip-review-check,
\* rejected by the AI review; writes the status column only
RejectCommand(sid, skip_review_check) ==
    /\ sid \in SubIds
    /\ subs[sid].status = PENDING
    /\ skip_review_check \/ (/\ subs[sid].ai_review_result.present
                             /\ subs[sid].ai_review_result.decision = "rejected")
    /\ SetSub(sid, SaveFields(subs[sid], [subs[sid] EXCEPT !.status = REJECTED],
                              {"status"}))
    /\ last' = Outcome("reject", sid, "none", NoAgent)
    /\ UNCHANGED <<agents, childRows, procs>>
    /\ UNCHANGED <<sourcingRuns, probe, enrichmentLogs>>

(***************************************************************************)
(* The gateway responses a handler can meet: a gateway that the handler    *)
(* does not call on this submission has one outcome, no response.          *)
(***************************************************************************)
NoExtract == [kind |-> "none", product_website |-> UrlNoScheme, confidence |-> 0]
NoScrape == [kind |-> "none", features |-> 0]

\* enrich_submission asks the aggregator extraction only for these submissions
CallsExtraction(sub) ==
    \/ is_aggregator_url(sub.agent_website)
    \/ /\ sub.enrichment_data.present
       /\ sub.enrichment_data.sourcing_metadata.url_classification = "aggregator"

\* the approve view enriches only a PENDING submission without enrichment data
ApproveEnriches(sub) == sub.status = PENDING /\ ~sub.enrichment_data.present

ExtractsMet(sid, called, outcomes) ==
    IF sid \in SubIds /\ called /\ CallsExtraction(subs[sid]) THEN outcomes ELSE {NoExtract}

ScrapesMet(sid, called, outcomes) ==
    IF sid \in SubIds /\ called THEN outcomes ELSE {NoScrape}

(***************************************************************************)
(* Spec: the lifecycle of a submission under every handler and every       *)
(* outcome of the extraction and review gateways.                          *)
(***************************************************************************)
LifecycleNames == {NameZf}
LifecycleWebsites == {UrlFoo, UrlAggregator}

Next ==
    \/ \E n \in LifecycleNames, w \in LifecycleWebsites :
          Len(subs) < MaxLifecycleSubs /\ SubmitForm(n, w)
    \/ \E sid \in 1..MaxSubs :
          \E x \in ExtractsMet(sid, TRUE, ExtractOutcomes), s \in ScrapeOutcomes :
             EnrichAny(sid, x, s)
    \/ \E sid \in 1..MaxSubs, force \in BOOLEAN :
          \E x \in ExtractsMet(sid, TRUE, ExtractOutcomes), s \in ScrapeOutcomes :
             EnrichCommand(sid, force, x, s)
    \/ \E sid \in 1..MaxSubs, auto \in BOOLEAN, force \in BOOLEAN,
          g \in GatewayOutcomes : ReviewCommand(sid, auto, force, g)
    \/ \E sid \in 1..MaxSubs, auto \in BOOLEAN, g \in GatewayOutcomes :
          ReviewTask(sid, auto, g)
    \/ \E sid \in 1..MaxSubs, g \in GatewayOutcomes : AdminReview(sid, g)
    \/ \E sid \in 1..MaxSubs, f \in Faults :
          \E x \in ExtractsMet(sid, ApproveEnriches(subs[sid]), ExtractOutcomes),
             s \in ScrapesMet(sid, ApproveEnriches(subs[sid]), ScrapeOutcomes) :
             AdminApprove(sid, x, s, f)
    \/ \E sid \in 1..MaxSubs, skip \in BOOLEAN, f \in Faults :
          ApproveCommand(sid, skip, f)
    \/ \E sid \in 1..MaxSubs : AdminRejectSingle(sid)
    \/ \E sel \in SUBSET (1..MaxSubs) : AdminRejectBulk(sel)
    \/ \E sid \in 1..MaxSubs, skip \in BOOLEAN : RejectCommand(sid, skip)

Spec == Init /\ [][Next]_vars

(***************************************************************************)
(* SpecDirectory: several submissions of equal and of different products   *)
(* are enriched, approved and rejected; approvals may break down.          *)
(***************************************************************************)
DirectoryScrapes == {[kind |-> "raise", features |-> 0], [kind |-> "ok", features |-> 1]}
DirectoryExtracts ==
    {[kind |-> "raise", product_website |-> UrlNoScheme, confidence |-> 0],
     [kind |-> "json", product_website |-> UrlFoo, confidence |-> 50]}

NextDirectory ==
    \/ \E n \in Names, w \in Websites : SubmitForm(n, w)
    \/ \E sid \in 1..MaxSubs :
          \E x \in ExtractsMet(sid, TRUE, DirectoryExtracts), s \in DirectoryScrapes :
             EnrichCommand(sid, FALSE, x, s)
    \/ \E sid \in 1..MaxSubs, f \in Faults :
          \E x \in ExtractsMet(sid, ApproveEnriches(subs[sid]), DirectoryExtracts),
             s \in ScrapesMet(sid, ApproveEnriches(subs[sid]), DirectoryScrapes) :
             AdminApprove(sid, x, s, f)
    \/ \E sid \in 1..MaxSubs, f \in Faults : ApproveCommand(sid, TRUE, f)
    \/ \E sid \in 1..MaxSubs : AdminRejectSingle(sid)

SpecDirectory == Init /\ [][NextDirectory]_vars

(***************************************************************************)
(* Approvals in flight: each request holds the submission object it loaded *)
(* and takes one step per database round trip.  A transaction's writes     *)
(* show up at its commit; an INSERT is checked against the unique columns  *)
(* of the committed rows.                                                  *)
(***************************************************************************)
SetProc(p, pc, op, sid, mem, agent) ==
    procs' = [procs EXCEPT ![p] =
                 [pc |-> pc, op |-> op, sid |-> sid, mem |-> mem, agent |-> agent]]

Finish(p) == procs' = [procs EXCEPT ![p] = Idle]

\* approve_single_submission: get_object and the status check on what it loaded
AdminApproveLoad(p, sid) ==
    /\ procs[p].pc = "idle"
    /\ sid \in SubIds
    /\ IF subs[sid].status # PENDING
       THEN /\ last' = Outcome("approve", sid, "NotPending", NoAgent)
            /\ UNCHANGED procs
       ELSE /\ SetProc(p, "check", "admin", sid, subs[sid], NoAgent)
            /\ UNCHANGED last
    /\ UNCHANGED <<subs, agents, childRows>>
    /\ UNCHANGED <<sourcingRuns, probe, enrichmentLogs>>

\* inside transaction.atomic(): enrich when there is no enrichment data, then
\* create_agent_from_submission up to the duplicate check
AdminApproveCheck(p, extract, scrape) ==
    /\ procs[p].pc = "check"
    /\ procs[p].op = "admin"
    /\ LET sid == procs[p].sid
           mem == procs[p].mem
           \* enrich_submission, then refresh_from_db: the row as it is now with
           \* the fields the enrichment wrote
           enriched == IF ~mem.enrichment_data.present
                       THEN SaveFields(subs[sid], enrich_submission(mem, extract, scrape),
                                       EnrichSavedFields)
                       ELSE mem
           pre == approval_precheck(enriched, agents)
       IN  IF ~enriched.enrichment_data.success
           THEN \* the view returns inside the atomic block: the enrichment is kept
                /\ SetSub(sid, SaveFields(subs[sid], enriched, EnrichSavedFields))
                /\ last' = Outcome("approve", sid, "EnrichmentFailed", NoAgent)
                /\ Finish(p)
           ELSE IF pre.error # "none"
           THEN /\ last' = Outcome("approve", sid, pre.error, pre.existing)
                /\ Finish(p)
                /\ UNCHANGED subs
           ELSE /\ SetProc(p, "create", "admin", sid, enriched, NoAgent)
                /\ UNCHANGED <<subs, last>>
    /\ UNCHANGED <<agents, childRows>>
    /\ UNCHANGED <<sourcingRuns, probe, enrichmentLogs>>

\* the rest of the atomic block: the agent and its child rows, the submission
\* marked and saved with save(), and the commit
AdminApproveCommit(p, fault) ==
    /\ procs[p].pc = "create"
    /\ procs[p].op = "admin"
    /\ LET sid == procs[p].sid
           mem == procs[p].mem
           rows == create_agent_rows(mem, sid, agents, childRows, fault)
       IN  IF rows.error # "none"
           THEN /\ last' = Outcome("approve", sid, rows.error, NoAgent)
                /\ UNCHANGED <<subs, agents, childRows>>
           ELSE IF fault = "save"
           THEN /\ last' = Outcome("approve", sid, "DatabaseError", NoAgent)
                /\ UNCHANGED <<subs, agents, childRows>>
           ELSE /\ agents' = rows.agents
                /\ childRows' = rows.childRows
                /\ SetSub(sid, MarkApproved(mem, rows.agent, AdminUser))
                /\ last' = Outcome("approve", sid, "none", NoAgent)
    /\ Finish(p)
    /\ UNCHANGED <<sourcingRuns, probe, enrichmentLogs>>

\* approve_submissions: list(queryset) loads the PENDING submissions
ApproveCommandLoad(p, sid, skip_review_check) ==
    /\ procs[p].pc = "idle"
    /\ sid \in SubIds
    /\ subs[sid].status = PENDING
    /\ skip_review_check \/ (/\ subs[sid].ai_review_result.present
                             /\ subs[sid].ai_review_result.decision = "approved")
    /\ SetProc(p, "check", "command", sid, subs[sid], NoAgent)
    /\ UNCHANGED <<subs, agents, childRows, last>>
    /\ UNCHANGED <<sourcingRuns, probe, enrichmentLogs>>

\* create_agent_from_submission up to the duplicate check; a duplicate is
\* auto-rejected
ApproveCommandCheck(p) ==
    /\ procs[p].pc = "check"
    /\ procs[p].op = "command"
    /\ LET sid == procs[p].sid
           mem == procs[p].mem
           pre == approval_precheck(mem, agents)
       IN  IF pre.error = "DuplicateAgentError"
           THEN /\ SetSub(sid, SaveFields(subs[sid],
                       [mem EXCEPT !.status = REJECTED,
                                   !.reviewer_notes = "Auto-rejected",
                                   !.reviewed_at = TRUE],
                       {"status", "reviewer_notes", "reviewed_at"}))
                /\ last' = Outcome("approve", sid, pre.error, pre.existing)
                /\ Finish(p)
           ELSE IF pre.error # "none"
           THEN /\ last' = Outcome("approve", sid, pre.error, NoAgent)
                /\ Finish(p)
                /\ UNCHANGED subs
           ELSE /\ SetProc(p, "create", "command", sid, mem, NoAgent)
                /\ UNCHANGED <<subs, last>>
    /\ UNCHANGED <<agents, childRows>>
    /\ UNCHANGED <<sourcingRuns, probe, enrichmentLogs>>

\* the atomic block of create_agent_from_submission, committed on its own
ApproveCommandCreate(p, fault) ==
    /\ procs[p].pc = "create"
    /\ procs[p].op = "command"
    /\ LET sid == procs[p].sid
           mem == procs[p].mem
           rows == create_agent_rows(mem, sid, agents, childRows, fault)
       IN  IF rows.error # "none"
           THEN /\ last' = Outcome("approve", sid, rows.error, NoAgent)
                /\ Finish(p)
                /\ UNCHANGED <<agents, childRows>>
           ELSE /\ agents' = rows.agents
                /\ childRows' = rows.childRows
                /\ SetProc(p, "save", "command", sid, mem, rows.agent)
                /\ UNCHANGED last
    /\ UNCHANGED subs
    /\ UNCHANGED <<sourcingRuns, probe, enrichmentLogs>>

\* submission.save(update_fields=["status", "agent", "reviewed_at"])
ApproveCommandSave(p, fault) ==
    /\ procs[p].pc = "save"
    /\ procs[p].op = "command"
    /\ LET sid == procs[p].sid
           mem == procs[p].mem
       IN  IF fault = "save"
           THEN /\ last' = Outcome("approve", sid, "DatabaseError", NoAgent)
                /\ UNCHANGED subs
           ELSE /\ SetSub(sid, SaveFields(subs[sid],
                       [mem EXCEPT !.status = APPROVED, !.agent = procs[p].agent,
                                   !.reviewed_at = TRUE],
                       {"status", "agent", "reviewed_at"}))
                /\ last' = Outcome("approve", sid, "none", NoAgent)
    /\ Finish(p)
    /\ UNCHANGED <<agents, childRows>>
    /\ UNCHANGED <<sourcingRuns, probe, enrichmentLogs>>

(***************************************************************************)
(* SpecConcurrent: approvals of submissions of equal and of different      *)
(* products run at once, their steps interleaved in every order.           *)
(***************************************************************************)
ConcurrentWebsites == {UrlFoo, UrlFooWww}
ConcurrentScrapes == {[kind |-> "ok", features |-> 1]}
ConcurrentExtracts == {[kind |-> "raise", product_website |-> UrlNoScheme, confidence |-> 0]}
ConcurrentFaults == {"none"}

NextConcurrent ==
    \/ \E n \in Names, w \in ConcurrentWebsites : SubmitForm(n, w)
    \/ \E sid \in 1..MaxSubs, x \in ConcurrentExtracts, s \in ConcurrentScrapes :
          EnrichCommand(sid, FALSE, x, s)
    \/ \E p \in Procs, sid \in 1..MaxSubs : AdminApproveLoad(p, sid)
    \/ \E p \in Procs, x \in ConcurrentExtracts, s \in ConcurrentScrapes :
          AdminApproveCheck(p, x, s)
    \/ \E p \in Procs, f \in ConcurrentFaults : AdminApproveCommit(p, f)
    \/ \E p \in Procs, sid \in 1..MaxSubs : ApproveCommandLoad(p, sid, TRUE)
    \/ \E p \in Procs : ApproveCommandCheck(p)
    \/ \E p \in Procs, f \in ConcurrentFaults : ApproveCommandCreate(p, f)
    \/ \E p \in Procs, f \in ConcurrentFaults : ApproveCommandSave(p, f)

SpecConcurrent == Init /\ [][NextConcurrent]_vars

(***************************************************************************)
(* Properties of the submission lifecycle (Spec)                           *)
(***************************************************************************)
\* the directory entries created from submission sid
EntriesOf(sid) == {a \in AgentIds : agents[a].submission = sid}

\* a step of review_submission on sid under any of its callers
ReviewStep(sid, auto_apply, gateway) ==
    \/ ReviewTask(sid, auto_apply, gateway)
    \/ \E force \in BOOLEAN : ReviewCommand(sid, auto_apply, force, gateway)
    \/ (~auto_apply /\ AdminReview(sid, gateway))

\* a step of enrich_submission on sid under any of its callers; the step ends
\* with no exception for the caller to handle
EnrichStep(sid, extract, scrape) ==
    \/ EnrichAny(sid, extract, scrape)
    \/ \E force \in BOOLEAN : EnrichCommand(sid, force, extract, scrape)

FailedScrapes == {s \in ScrapeOutcomes : s.kind \in {"raise", "none"}}

\* C1: in every reachable state a submission has a linked directory entry
\* (agent is set) if and only if its status is APPROVED.
C1_LinkedIffApproved ==
    \A sid \in SubIds :
        (subs[sid].agent # NoAgent) <=> (subs[sid].status = APPROVED)

\* C2: once the status of a submission is APPROVED or REJECTED, no operation
\* changes it again.
C2_DecidedStatusIsFinal ==
    [][\A sid \in SubIds :
          subs[sid].status # PENDING => subs'[sid].status = subs[sid].status]_vars

\* C3: whenever the review result has a confidence below the threshold,
\* review_submission leaves the status as it was and sets needs_manual_review,
\* whatever the decision and whatever auto_apply.
C3_LowConfidenceNeverApplies ==
    [][\A sid \in SubIds :
          (last'.op = "review" /\ last'.sid = sid) =>
             \A auto_apply \in BOOLEAN, g \in GatewayOutcomes :
                (/\ review(g).confidence < EffectiveThreshold(NoThreshold)
                 /\ ReviewStep(sid, auto_apply, g))
                => /\ subs'[sid].status = subs[sid].status
                   /\ subs'[sid].needs_manual_review]_vars

\* C3, its case: an auto_apply review said "approved" with confidence 50 and the
\* submission is still PENDING, flagged for manual review
C3_Witness ==
    /\ last.op = "review"
    /\ last.auto_apply
    /\ last.sid \in SubIds
    /\ subs[last.sid].ai_review_result.decision = "approved"
    /\ subs[last.sid].ai_review_result.confidence = 50
    /\ ~subs[last.sid].ai_review_result.auto_applied
    /\ subs[last.sid].status = PENDING
    /\ subs[last.sid].needs_manual_review

\* C4: when review_submission runs with auto_apply on a PENDING submission and
\* the decision is "approved" with a confidence at or above the threshold, the
\* submission ends APPROVED, a directory entry created from it exists, and the
\* stored review result has auto_applied = true.
C4_AutoApproveCreatesEntry ==
    [][\A sid \in SubIds, g \in GatewayOutcomes :
          (/\ g.kind = "ok"
           /\ g.decision = "approved"
           /\ g.confidence >= EffectiveThreshold(NoThreshold)
           /\ subs[sid].status = PENDING
           /\ ReviewStep(sid, TRUE, g))
          => /\ subs'[sid].status = APPROVED
             /\ subs'[sid].ai_review_result.auto_applied
             /\ \E a \in 1..Len(agents') : agents'[a].submission = sid]_vars

\* C9: a PENDING submission whose enrichment data has success = false does not
\* become APPROVED by any operation.
C9_FailedEnrichmentNeverApproved ==
    [][\A sid \in SubIds :
          (/\ subs[sid].status = PENDING
           /\ subs[sid].enrichment_data.present
           /\ ~subs[sid].enrichment_data.success
           /\ ~subs'[sid].enrichment_data.success)
          => subs'[sid].status # APPROVED]_vars

\* C10: when the scrape raises or returns no response, enrich_submission raises
\* nothing, stores enrichment data with success = false and an error message,
\* leaves the status as it was and creates no directory entry.
C10_FailedScrapeIsStored ==
    [][\A sid \in SubIds, x \in ExtractOutcomes, s \in FailedScrapes :
          (/\ last'.op = "enrich" /\ last'.sid = sid
           /\ EnrichStep(sid, x, s))
          => /\ last'.error = "none"
             /\ subs'[sid].enrichment_data.present
                   /\ ~subs'[sid].enrichment_data.success
                   /\ subs'[sid].enrichment_data.error_message # ""
                   /\ subs'[sid].status = subs[sid].status
                   /\ subs'[sid].agent = subs[sid].agent
                   /\ agents' = agents
                   /\ childRows' = childRows]_vars

\* C10, its case: the latest handler enriched a PENDING submission, the scrape
\* raised, and the failure is what the submission now stores
C10_Witness ==
    /\ last.op = "enrich"
    /\ last.error = "none"
    /\ last.sid \in SubIds
    /\ subs[last.sid].enrichment_data.present
    /\ ~subs[last.sid].enrichment_data.success
    /\ subs[last.sid].enrichment_data.error_message = "Firecrawl scrape failed"
    /\ subs[last.sid].status = PENDING
    /\ agents = <<>>

(***************************************************************************)
(* Properties of the directory (SpecDirectory)                             *)
(***************************************************************************)
\* a step of an approval of sid that finds it enriched, under any of its callers
ApproveStep(sid) ==
    \E f \in Faults :
        \/ AdminApprove(sid, NoExtract, NoScrape, f)
        \/ \E skip \in BOOLEAN : ApproveCommand(sid, skip, f)

\* C5: no two directory entries have the same normalized website, the same
\* name ignoring case, or the same slug.
C5_EntriesAreDistinctProducts ==
    \A a \in AgentIds, b \in AgentIds :
        a # b => /\ normalize_url(agents[a].website) # normalize_url(agents[b].website)
                 /\ ~IExact(agents[a].name, agents[b].name)
                 /\ agents[a].slug # agents[b].slug

\* C7: every directory entry created by an approval has its source submission
\* APPROVED and linked to it, whatever step of an approval failed.
C7_EntryHasApprovedSource ==
    \A a \in AgentIds :
        /\ subs[agents[a].submission].status = APPROVED
        /\ subs[agents[a].submission].agent = a

\* C8: approving a PENDING, successfully enriched submission whose website is
\* the website of an existing directory entry raises DuplicateAgentError with
\* that entry, creates no entry and no child rows, and does not mark the
\* submission APPROVED.
C8_DuplicateWebsiteIsRefused ==
    [][\A sid \in SubIds :
          (/\ last'.op = "approve"
           /\ last'.sid = sid
           /\ subs[sid].status = PENDING
           /\ subs[sid].enrichment_data.present
           /\ subs[sid].enrichment_data.success
           /\ \E a \in AgentIds : agents[a].website = subs[sid].agent_website
           /\ ApproveStep(sid))
          => /\ last'.error = "DuplicateAgentError"
             /\ last'.existing \in AgentIds
             /\ agents[last'.existing].website = subs[sid].agent_website
             /\ agents' = agents
             /\ childRows' = childRows
             /\ subs'[sid].status # APPROVED
             /\ subs'[sid].agent = NoAgent]_vars

\* C8, its case: the approval of a submission under another name than the one
\* entry of the directory, with that entry's website, has just been refused
C8_Witness ==
    /\ last.op = "approve"
    /\ last.error = "DuplicateAgentError"
    /\ last.sid \in SubIds
    /\ Len(agents) = 1
    /\ last.existing = 1
    /\ agents[1].website = subs[last.sid].agent_website
    /\ agents[1].submission # last.sid
    /\ ~IExact(agents[1].name, subs[last.sid].agent_name)
    /\ agents[1].slug # slugify(subs[last.sid].agent_name)
    /\ subs[last.sid].enrichment_data.success
    /\ subs[last.sid].status # APPROVED
    /\ childRows \subseteq {1}

(***************************************************************************)
(* Properties of approvals in flight (SpecConcurrent)                      *)
(***************************************************************************)
\* two submissions describe the same product: the same website, the same name
\* ignoring case, or the same slug
SameProduct(s, t) ==
    \/ s.agent_website = t.agent_website
    \/ IExact(s.agent_name, t.agent_name)
    \/ slugify(s.agent_name) = slugify(t.agent_name)

\* C6: of two different submissions that describe the same product, at most one
\* creates a directory entry and ends APPROVED, however the duplicate checks and
\* the entry creations of their approvals interleave.
C6_OneApprovalPerProduct ==
    \A s \in SubIds, t \in SubIds :
        (s # t /\ SameProduct(subs[s], subs[t]))
        => /\ EntriesOf(s) = {} \/ EntriesOf(t) = {}
           /\ ~(/\ subs[s].status = APPROVED /\ subs[s].agent # NoAgent
                /\ subs[t].status = APPROVED /\ subs[t].agent # NoAgent)

\* C6, its case: both duplicate checks passed before either entry was created,
\* and the INSERT of the later approval has just been refused
C6_Witness ==
    /\ last.error = "IntegrityError"
    /\ Len(subs) = 2
    /\ SameProduct(subs[1], subs[2])
    /\ Len(agents) = 1
    /\ \E s \in SubIds :
          /\ s # last.sid
          /\ subs[s].status = APPROVED
          /\ subs[s].agent = 1
          /\ subs[last.sid].status = PENDING
          /\ EntriesOf(last.sid) = {}

(***************************************************************************)
(* Properties of the review (Spec)                                         *)
(***************************************************************************)
GatewayFailure == [kind |-> "raise", decision |-> "needs_review", confidence |-> 0]

\* C12: when the review gateway call raises, review_submission raises nothing,
\* stores the result needs_review / confidence 0 / flags ["review_error"] /
\* auto_applied false, sets needs_manual_review and leaves the status as it
\* was, for both values of auto_apply.
C12_GatewayFailureIsAResult ==
    [][\A sid \in SubIds :
          (last'.op = "review" /\ last'.sid = sid) =>
             \A auto_apply \in BOOLEAN :
                ReviewStep(sid, auto_apply, GatewayFailure)
                => /\ last'.error = "none"
                   /\ subs'[sid].ai_review_result =
                         [present |-> TRUE, decision |-> "needs_review",
                          confidence |-> 0, flags |-> {"review_error"},
                          auto_applied |-> FALSE]
                   /\ subs'[sid].needs_manual_review
                   /\ subs'[sid].status = subs[sid].status]_vars

\* C12, its case: an auto_apply review met a failing gateway; the submission
\* holds the error result and is still PENDING
C12_Witness ==
    /\ last.op = "review"
    /\ last.auto_apply
    /\ last.error = "none"
    /\ last.sid \in SubIds
    /\ subs[last.sid].ai_review_result.present
    /\ subs[last.sid].ai_review_result.flags = {"review_error"}
    /\ subs[last.sid].ai_review_result.decision = "needs_review"
    /\ subs[last.sid].needs_manual_review
    /\ subs[last.sid].status = PENDING

(***************************************************************************)
(* SpecReviewGate: review_submission under a ReviewService built with any  *)
(* confidence threshold, on every decision and confidence.                 *)
(***************************************************************************)
\* thresholds a ReviewService is built with, in percent; NoThreshold is None
Thresholds == {NoThreshold, 0, 50, 70, 100}
GateConfidences == {0, 50, 70, 100}
GateOutcomes == [kind : {"ok"}, decision : Decisions, confidence : GateConfidences]

\* ReviewService(confidence_threshold=t).review_submission(submission, auto_apply)
ReviewConfigured(sid, auto_apply, gateway, threshold) ==
    /\ sid \in SubIds
    /\ SetSub(sid, review_submission(subs[sid], auto_apply, gateway, threshold))
    /\ last' = ReviewOutcome(sid, auto_apply)
    /\ UNCHANGED <<agents, childRows, procs>>
    /\ UNCHANGED <<sourcingRuns, probe, enrichmentLogs>>

NextReviewGate ==
    \/ \E w \in LifecycleWebsites :
          Len(subs) < MaxLifecycleSubs /\ SubmitForm(NameZf, w)
    \/ \E sid \in 1..MaxSubs :
          \E x \in ExtractsMet(sid, TRUE, DirectoryExtracts), s \in DirectoryScrapes :
             EnrichCommand(sid, FALSE, x, s)
    \/ \E sid \in 1..MaxSubs, auto \in BOOLEAN, g \in GateOutcomes, t \in Thresholds :
          ReviewConfigured(sid, auto, g, t)

SpecReviewGate == Init /\ [][NextReviewGate]_vars

\* the threshold the service was configured with: 0.7 when none was given
ConfiguredThreshold(t) == IF t = NoThreshold THEN CONFIDENCE_THRESHOLD ELSE t

\* C13: for every configured threshold t (0.7 when none is given) and every
\* confidence c, review_submission sets needs_manual_review to exactly (c < t)
\* and applies the decision to the status exactly when auto_apply is true, the
\* decision is approved or rejected, and c >= t.
C13_GateFollowsConfiguredThreshold ==
    [][\A sid \in SubIds, auto \in BOOLEAN, g \in GateOutcomes, t \in Thresholds :
          ReviewConfigured(sid, auto, g, t)
          => LET applies == /\ auto
                            /\ g.decision \in {"approved", "rejected"}
                            /\ g.confidence >= ConfiguredThreshold(t)
             IN  /\ subs'[sid].needs_manual_review
                       = (g.confidence < ConfiguredThreshold(t))
                 /\ subs'[sid].ai_review_result.auto_applied = applies
                 /\ subs'[sid].status =
                       IF applies
                       THEN (IF g.decision = "approved" THEN APPROVED ELSE REJECTED)
                       ELSE subs[sid].status]_vars


\* C19: no operation offered to callers scrapes a submission that already has
\* enrichment data unless force is requested: a step of the enrich command
\* without --force, of the enrichment task or of an admin enrich action on
\* such a submission leaves the stored snapshot and the website as they were.
C19_NoRescrapeWithoutForce ==
    [][\A sid \in SubIds :
          (/\ last'.op = "enrich" /\ last'.sid = sid /\ ~last'.force
           /\ subs[sid].enrichment_data.present
           /\ \E x \in ExtractOutcomes, s \in ScrapeOutcomes :
                 EnrichAny(sid, x, s) \/ EnrichCommand(sid, FALSE, x, s))
          => /\ subs'[sid].enrichment_data = subs[sid].enrichment_data
             /\ subs'[sid].agent_website = subs[sid].agent_website]_vars


(***************************************************************************)
(* SpecAggregator: enrich_submission stepped through its two requests, the *)
(* aggregator extraction and the main scrape, one call at a time.          *)
(***************************************************************************)
\* what the extraction can answer for an aggregator page, the page's own URL
\* included
AggregatorExtracts ==
    {[kind |-> "raise", product_website |-> UrlNoScheme, confidence |-> 0],
     [kind |-> "none", product_website |-> UrlNoScheme, confidence |-> 0]}
    \cup [kind : {"json"}, product_website : {UrlFoo, UrlAggregator, UrlNoScheme},
          confidence : {40, 50, 90}]

\* enrich_submission, lines 273-293: the extraction request, and the website
\* saved when an extracted URL replaces it
EnrichExtract(p, sid, extract) ==
    /\ procs[p].pc = "idle"
    /\ sid \in SubIds
    /\ LET sub == subs[sid]
           called == CallsExtraction(sub)
           extracted_url == IF called THEN extract_product_url_from_aggregator(extract)
                            ELSE [found |-> FALSE, url |-> UrlNoScheme]
           mem == enrich_submission_extract(sub, extract)
       IN  /\ procs' = [procs EXCEPT ![p] =
                           [pc |-> "scrape", op |-> "enrich", sid |-> sid, mem |-> mem,
                            agent |-> NoAgent, original_url |-> sub.agent_website,
                            extracted_url |-> extracted_url]]
           /\ IF mem.agent_website # sub.agent_website
              THEN SetSub(sid, SaveFields(subs[sid], mem, {"agent_website"}))
              ELSE UNCHANGED subs
    /\ UNCHANGED <<agents, childRows, last>>
    /\ UNCHANGED <<sourcingRuns, probe, enrichmentLogs>>

\* enrich_submission, lines 296-367: the main scrape and the save of the snapshot
EnrichScrape(p, scrape) ==
    /\ procs[p].pc = "scrape"
    /\ LET sid == procs[p].sid
           mem == enrich_submission_scrape(procs[p].original_url, procs[p].mem, scrape)
       IN  /\ SetSub(sid, SaveFields(subs[sid], mem, EnrichSavedFields))
           /\ last' = Outcome("enrich", sid, "none", NoAgent)
    /\ Finish(p)
    /\ UNCHANGED <<agents, childRows>>
    /\ UNCHANGED <<sourcingRuns, probe, enrichmentLogs>>

NextAggregator ==
    \/ \E w \in LifecycleWebsites : SubmitForm(NameZf, w)
    \/ \E sid \in 1..MaxSubs :
          \E x \in ExtractsMet(sid, TRUE, AggregatorExtracts) : EnrichExtract(1, sid, x)
    \/ \E s \in DirectoryScrapes : EnrichScrape(1, s)

SpecAggregator == Init /\ [][NextAggregator]_vars

\* the extraction answered with confidence >= 0.5 and an http(s) URL
Accepted(extract) ==
    /\ extract.kind = "json"
    /\ extract.confidence >= ExtractionMinConfidence
    /\ HasHttpScheme(extract.product_website)

\* C20 as stated: enrich_submission on an aggregator URL replaces the website
\* with the extracted URL if and only if the extraction returned confidence
\* >= 0.5 and an http(s) URL; then the new website is in the database before
\* the main scrape and the stored snapshot carries _url_extraction with the
\* original and the extracted URL; otherwise the website is unchanged.
C20_AcceptedExtractionIsRecorded ==
    [][/\ \A p \in Procs, sid \in SubIds, x \in AggregatorExtracts :
             (is_aggregator_url(subs[sid].agent_website) /\ EnrichExtract(p, sid, x))
             => /\ procs'[p].pc = "scrape"
                /\ subs'[sid].agent_website =
                      IF Accepted(x) THEN x.product_website ELSE subs[sid].agent_website
                /\ procs'[p].extracted_url.found = Accepted(x)
       /\ \A p \in Procs, s \in DirectoryScrapes :
             (/\ procs[p].pc = "scrape"
              /\ is_aggregator_url(procs[p].original_url)
              /\ EnrichScrape(p, s))
             => LET sid == procs[p].sid
                IN  /\ subs'[sid].agent_website = subs[sid].agent_website
                    /\ procs[p].extracted_url.found
                       => subs'[sid].enrichment_data.url_extraction =
                             [extraction_performed |-> TRUE,
                              original_url |-> procs[p].original_url,
                              extracted_url |-> procs[p].extracted_url.url]]_vars

\* C20, amended: the website is replaced if and only if the extraction returned
\* confidence >= 0.5 and an http(s) URL that differs from the submission's
\* URL; then the new website is in the database before the main scrape and the
\* stored snapshot carries _url_extraction with the original and the extracted
\* URL; otherwise the website is unchanged and no _url_extraction is stored.
C20_ExtractionReplacesWebsite ==
    [][/\ \A p \in Procs, sid \in SubIds, x \in AggregatorExtracts :
             (is_aggregator_url(subs[sid].agent_website) /\ EnrichExtract(p, sid, x))
             => LET replaces == Accepted(x) /\ x.product_website # subs[sid].agent_website
                IN  /\ procs'[p].pc = "scrape"
                    /\ subs'[sid].agent_website =
                          IF replaces THEN x.product_website ELSE subs[sid].agent_website
                    /\ procs'[p].extracted_url.found = Accepted(x)
                    /\ Accepted(x) => procs'[p].extracted_url.url = x.product_website
       /\ \A p \in Procs, s \in DirectoryScrapes :
             (/\ procs[p].pc = "scrape"
              /\ is_aggregator_url(procs[p].original_url)
              /\ EnrichScrape(p, s))
             => LET sid == procs[p].sid
                    replaced == /\ procs[p].extracted_url.found
                                /\ procs[p].extracted_url.url # procs[p].original_url
                IN  /\ subs'[sid].agent_website = subs[sid].agent_website
                    /\ subs'[sid].enrichment_data.url_extraction =
                          IF replaced
                          THEN [extraction_performed |-> TRUE,
                                original_url |-> procs[p].original_url,
                                extracted_url |-> procs[p].extracted_url.url]
                          ELSE NoUrlExtraction]_vars

\* C20, its case: an enrichment of an aggregator submission has ended, its
\* website is the extracted product URL and the snapshot records the exchange
C20_Witness ==
    /\ last.op = "enrich"
    /\ last.sid \in SubIds
    /\ subs[last.sid].agent_website = UrlFoo
    /\ subs[last.sid].enrichment_data.url_extraction =
          [extraction_performed |-> TRUE, original_url |-> UrlAggregator,
           extracted_url |-> UrlFoo]


(***************************************************************************)
(* filters.py: the URL classifier under a configuration.  A configuration  *)
(* holds the four settings lists and the GitHub switch; a domain pattern   *)
(* is a record [wildcard, base], a blocked path a sequence of segments.    *)
(***************************************************************************)
\* some pattern of the list matches the domain of the URL
MatchesAny(u, patterns) ==
    \E p \in patterns : domain_matches(get_domain(u), p)

\* filters._get_path: parsed.path of the lowered URL, as tokens
get_path(u) ==
    LET toks == PathTokens(LowerLabels(u.path))
    IN  IF u.slash THEN toks \o <<"/">> ELSE toks

\* blocked_path in path: the blocked tokens occur in a row in the path
ContainsTokens(path, blocked) ==
    \E i \in 1..(Len(path) - Len(blocked) + 1) :
        SubSeq(path, i, i + Len(blocked) - 1) = blocked

\* is_blocked_url with the path blocklist tried before the aggregator exemption
is_blocked_url_path_first(u, cfg) ==
    IF MatchesAny(u, cfg.domain_blocklist) THEN TRUE
    ELSE \E b \in cfg.path_blocklist : ContainsTokens(get_path(u), PathTokens(LowerLabels(b)))

\* filters.is_blocked_url: the domain blocklist, then the aggregator exemption,
\* then the path blocklist
is_blocked_url(u, cfg) ==
    IF MatchesAny(u, cfg.domain_blocklist) THEN TRUE
    ELSE IF MatchesAny(u, cfg.aggregator_domains) THEN FALSE
    ELSE \E b \in cfg.path_blocklist : ContainsTokens(get_path(u), PathTokens(LowerLabels(b)))

\* filters.is_github_url
is_github_url(u) ==
    LET domain == get_domain(u)
    IN  \/ domain \in {<<"github", "com">>, <<"github", "io">>}
        \/ (Len(domain) > 2 /\ IsSuffix(<<"github", "io">>, domain))

\* filters.is_allowlisted_url
is_allowlisted_url(u, cfg) == MatchesAny(u, cfg.domain_allowlist)

\* the paths is_non_root_url treats as the root, trailing slashes stripped
RootPaths == {<<>>, <<"/", "en">>, <<"/", "en-us">>, <<"/", "en-gb">>}

RECURSIVE RStripSlash(_)
\* path.rstrip("/")
RStripSlash(path) ==
    IF path # <<>> /\ path[Len(path)] = "/"
    THEN RStripSlash(SubSeq(path, 1, Len(path) - 1)) ELSE path

\* filters.is_non_root_url
is_non_root_url(u) ==
    LET path == RStripSlash(get_path(u))
    IN  IF path \in RootPaths THEN FALSE
        ELSE \E i \in 1..Len(path) : path[i] # "/"

\* filters.get_url_classification
get_url_classification(u, cfg) ==
    IF is_blocked_url(u, cfg) THEN "blocked"
    ELSE IF MatchesAny(u, cfg.aggregator_domains) THEN "aggregator"
    ELSE IF is_github_url(u) THEN (IF cfg.github_valid THEN "github" ELSE "blocked")
    ELSE IF is_allowlisted_url(u, cfg) THEN "allowlist"
    ELSE IF is_non_root_url(u) THEN "non_root"
    ELSE "normal"

\* the URLs and the settings the classifier is tried on; every caller passes a
\* URL with a scheme (DiscoveredAgent.__post_init__, AgentSubmission.agent_website)
UrlFooBlog == Url("https", <<"foo", "ai">>, <<"blog">>, FALSE)
UrlFooEn == Url("https", <<"foo", "ai">>, <<"en">>, TRUE)
UrlAggregatorBlog == Url("https", <<"www", "yc", "com">>, <<"blog", "foo">>, FALSE)
UrlGithub == Url("https", <<"github", "com">>, <<"foo", "bar">>, FALSE)
UrlGithubPages == Url("https", <<"foo", "github", "io">>, <<>>, TRUE)
UrlGithubBlog == Url("https", <<"github", "io">>, <<"blog">>, FALSE)

ClassifierUrls ==
    {UrlFoo, UrlFooWww, UrlFooBlog, UrlFooEn, UrlAggregator, UrlAggregatorBlog,
     UrlGithub, UrlGithubPages, UrlGithubBlog}

PatternYc == [wildcard |-> TRUE, base |-> <<"yc", "com">>]
PatternFoo == [wildcard |-> FALSE, base |-> <<"foo", "ai">>]
PatternGithubIo == [wildcard |-> TRUE, base |-> <<"github", "io">>]

ClassifierConfigs ==
    [domain_blocklist : SUBSET {PatternFoo, PatternYc},
     path_blocklist : SUBSET {<<"blog">>},
     aggregator_domains : SUBSET {PatternYc, PatternGithubIo},
     domain_allowlist : SUBSET {PatternFoo, PatternGithubIo},
     github_valid : BOOLEAN]

InitClassifier ==
    /\ subs = <<>>
    /\ agents = <<>>
    /\ childRows = {}
    /\ procs = [p \in Procs |-> Idle]
    /\ last = NoOutcome
    /\ sourcingRuns = NoSourcing
    /\ probe \in [tag : {"none"}, url : ClassifierUrls, cfg : ClassifierConfigs]
    /\ enrichmentLogs = <<>>

\* get_url_classification(url) under the settings cfg
Classify ==
    /\ probe.tag = "none"
    /\ probe # NoProbe
    /\ probe' = [probe EXCEPT !.tag = get_url_classification(probe.url, probe.cfg)]
    /\ UNCHANGED <<subs, agents, childRows, procs, last, sourcingRuns, enrichmentLogs>>

NextClassifier == Classify

SpecClassifier == InitClassifier /\ [][NextClassifier]_vars

\* the rules of the classifier, each on its own
RuleBlocked(u, cfg) ==
    \/ MatchesAny(u, cfg.domain_blocklist)
    \/ /\ ~MatchesAny(u, cfg.aggregator_domains)
       /\ \E b \in cfg.path_blocklist :
             ContainsTokens(get_path(u), PathTokens(LowerLabels(b)))

RuleNonRoot(u) ==
    LowerLabels(u.path) \notin {<<>>, <<"en">>, <<"en-us">>, <<"en-gb">>}

\* the tag of the first rule that matches, in the order blocked, aggregator,
\* github, allowlist, non_root, normal
FirstMatchingRule(u, cfg) ==
    CASE RuleBlocked(u, cfg) -> "blocked"
      [] MatchesAny(u, cfg.aggregator_domains) -> "aggregator"
      [] is_github_url(u) -> IF cfg.github_valid THEN "github" ELSE "blocked"
      [] MatchesAny(u, cfg.domain_allowlist) -> "allowlist"
      [] RuleNonRoot(u) -> "non_root"
      [] OTHER -> "normal"

\* C14: for every URL and every configuration, get_url_classification returns
\* exactly one of the six tags, the tag of the first rule that matches in the
\* order blocked, aggregator, github, allowlist, non_root, normal; a GitHub
\* domain yields blocked when GitHub acceptance is disabled.
C14_FirstMatchingRuleWins ==
    probe.tag # "none"
    => /\ probe.tag \in {"blocked", "aggregator", "github", "allowlist", "non_root",
                         "normal"}
       /\ probe.tag = FirstMatchingRule(probe.url, probe.cfg)

\* C14, its case: a GitHub URL on the allowlist was classified with GitHub
\* acceptance disabled
C14_Witness ==
    /\ probe.tag = "blocked"
    /\ probe.url = UrlGithubPages
    /\ ~probe.cfg.github_valid
    /\ probe.cfg.domain_blocklist = {}
    /\ probe.cfg.aggregator_domains = {}
    /\ PatternGithubIo \in probe.cfg.domain_allowlist


\* C15 as stated: a URL whose domain matches a configured aggregator domain is
\* never classified blocked: it is classified aggregator, even when its path
\* contains a blocked path substring.
C15_AggregatorNeverBlocked ==
    (probe.tag # "none" /\ MatchesAny(probe.url, probe.cfg.aggregator_domains))
    => probe.tag = "aggregator"

\* C15, amended: a URL whose domain matches a configured aggregator domain and
\* no entry of the domain blocklist is classified aggregator, even when its
\* path contains a blocked path substring; when its domain also matches the
\* domain blocklist it is classified blocked.
C15_AggregatorExemptFromPathBlocklist ==
    (probe.tag # "none" /\ MatchesAny(probe.url, probe.cfg.aggregator_domains))
    => probe.tag = IF MatchesAny(probe.url, probe.cfg.domain_blocklist)
                   THEN "blocked" ELSE "aggregator"

\* C15, its case: an aggregator URL whose path contains a blocked path was
\* classified aggregator
C15_Witness ==
    /\ probe.tag = "aggregator"
    /\ probe.url = UrlAggregatorBlog
    /\ <<"blog">> \in probe.cfg.path_blocklist
    /\ PatternYc \in probe.cfg.aggregator_domains


(***************************************************************************)
(* SourcingService: a run creates its SourcingRun record, asks the source  *)
(* for candidates, filters and deduplicates them, creates submissions in   *)
(* one transaction, writes the outcome and, when asked, enriches what it   *)
(* created.                                                                *)
(***************************************************************************)
MaxDiscovered == 2
MaxRuns == 1

\* the settings the sourcing run classifies under
SettingsConfig ==
    [domain_blocklist |-> {}, path_blocklist |-> {<<"blog">>},
     aggregator_domains |-> AggregatorDomains, domain_allowlist |-> {},
     github_valid |-> TRUE]

UrlBarDocs == Url("https", <<"bar", "dev">>, <<"docs">>, FALSE)

\* the websites a source reports, as the source wrote them
SourcingWebsites ==
    {UrlNoScheme, UrlFooWww, UrlAggregator, UrlFooBlog, UrlGithub, UrlBarDocs}

\* DiscoveredAgent.__post_init__: a website without a scheme gets https://
DiscoveredAgent(name, website) ==
    [name |-> name,
     website |-> IF HasHttpScheme(website) THEN website
                 ELSE [website EXCEPT !.scheme = "https"]]

Candidates == {DiscoveredAgent(NameZf, w) : w \in SourcingWebsites}

RECURSIVE SeqsUpTo(_, _)
\* the sequences over S of length at most n
SeqsUpTo(S, n) ==
    IF n = 0 THEN {<<>>}
    ELSE LET shorter == SeqsUpTo(S, n - 1)
         IN  shorter \cup {Append(q, x) : q \in shorter, x \in S}

\* what source.discover does: raises, or returns a list of candidates
Discoveries ==
    {[kind |-> "raise", found |-> <<>>]}
    \cup {[kind |-> "ok", found |-> q] : q \in SeqsUpTo(Candidates, MaxDiscovered)}

\* what AgentSubmission.objects.create does for a candidate: returns the row,
\* or raises from the INSERT
CreateFaults == {"none", "db"}

\* SourcingRun defaults; outcome_writes counts the run.save() calls
NewRun(source_id) ==
    [source_id |-> source_id, discovered_count |-> 0, new_count |-> 0,
     skipped_count |-> 0, created_submission_ids |-> <<>>, success |-> TRUE,
     error_message |-> "", completed_at |-> FALSE, outcome_writes |-> 0]

\* SourcingService._get_existing_urls
get_existing_urls(agentTable, subTable) ==
    {normalize_url(agentTable[i].website) : i \in 1..Len(agentTable)}
    \cup {normalize_url(subTable[i].agent_website) :
             i \in {j \in 1..Len(subTable) : subTable[j].status # REJECTED}}

RECURSIVE FilterDiscoveries(_, _, _)
\* _process_discoveries, the filter loop: the candidates kept, each with its
\* classification
FilterDiscoveries(discovered, existing_urls, kept) ==
    IF discovered = <<>> THEN kept
    ELSE LET agent == Head(discovered)
             classification == get_url_classification(agent.website, SettingsConfig)
             normalized == normalize_url(agent.website)
         IN  IF classification = "blocked"
             THEN FilterDiscoveries(Tail(discovered), existing_urls, kept)
             ELSE IF normalized = <<>> \/ normalized \in existing_urls
             THEN FilterDiscoveries(Tail(discovered), existing_urls, kept)
             ELSE FilterDiscoveries(Tail(discovered), existing_urls \cup {normalized},
                     Append(kept, [agent |-> agent, classification |-> classification]))

\* needs_review = classification in ("non_root", "github")
needs_review_never(classification) == FALSE

needs_review(classification) == classification \in {"non_root", "github"}

\* the row AgentSubmission.objects.create is given for a kept candidate
SourcedSubmission(agent, classification, source_id) ==
    [NewSubmission(agent.name, agent.website, "AUTO") EXCEPT
        !.needs_manual_review = needs_review(classification),
        !.enrichment_data =
            [NullEnrichment EXCEPT
                !.present = TRUE,
                !.sourcing_metadata = [url_classification |-> classification,
                                       source_id |-> source_id]]]

RECURSIVE CreateSubmissions(_, _, _, _, _, _)
\* _process_discoveries, the loop inside transaction.atomic(): the objects
\* appended to submissions, each with its pk, and whether an INSERT raised.
\* Once one has raised the connection needs a rollback and every later query
\* of the block raises too; the except clause swallows both.
CreateSubmissions(filtered, faults, source_id, next_pk, broken, submissions) ==
    IF filtered = <<>> THEN [submissions |-> submissions, broken |-> broken]
    ELSE IF broken \/ Head(faults) = "db"
    THEN CreateSubmissions(Tail(filtered), Tail(faults), source_id, next_pk, TRUE,
                           submissions)
    ELSE CreateSubmissions(Tail(filtered), Tail(faults), source_id, next_pk + 1, FALSE,
            Append(submissions,
                   [pk |-> next_pk,
                    mem |-> SourcedSubmission(Head(filtered).agent,
                                              Head(filtered).classification, source_id)]))

\* SourcingService._process_discoveries: the list it returns and the rows the
\* transaction leaves in the table; a block that needs a rollback is rolled
\* back when it is left, silently
process_discoveries(discovered, source_id, faults, agentTable, subTable) ==
    LET filtered == FilterDiscoveries(discovered,
                                      get_existing_urls(agentTable, subTable), <<>>)
        made == CreateSubmissions(filtered, faults, source_id, Len(subTable) + 1,
                                  FALSE, <<>>)
        rows == [i \in 1..Len(made.submissions) |-> made.submissions[i].mem]
    IN  [submissions |-> made.submissions,
         table |-> IF made.broken THEN subTable ELSE subTable \o rows]

RECURSIVE EnrichSubmissions(_, _, _, _)
\* _enrich_submissions, the loop: enrich_submission on each object; the save
\* of an object whose row is gone raises and is swallowed
EnrichSubmissions(table, submissions, extracts, scrapes) ==
    IF submissions = <<>> THEN table
    ELSE LET pk == Head(submissions).pk
             mem == enrich_submission(Head(submissions).mem, Head(extracts),
                                      Head(scrapes))
             saved == IF pk \in 1..Len(table)
                      THEN [table EXCEPT ![pk] = SaveFields(table[pk], mem,
                                                            EnrichSavedFields)]
                      ELSE table
         IN  EnrichSubmissions(saved, Tail(submissions), Tail(extracts), Tail(scrapes))

SourceIds == {"serp"}

SetRun(run) ==
    [sourcingRuns EXCEPT !.runs[Len(sourcingRuns.runs)] = run]

\* run.save() in the except clause of SourcingService.run
FailRun(run) ==
    [run EXCEPT !.success = FALSE, !.error_message = "error", !.completed_at = TRUE,
                !.outcome_writes = @ + 1]

\* SourcingService.run, line 190: the run record is created
SourcingStart(source_id, auto_enrich) ==
    /\ sourcingRuns.pc = "idle"
    /\ Len(sourcingRuns.runs) < MaxRuns
    /\ sourcingRuns' = [runs |-> Append(sourcingRuns.runs, NewRun(source_id)),
                        pc |-> "discover", auto_enrich |-> auto_enrich,
                        created |-> <<>>]
    /\ UNCHANGED <<subs, agents, childRows, procs, last, probe, enrichmentLogs>>

\* SourcingService.run, lines 197-217 and the except clause: discovery, the
\* submissions, and the outcome written to the run record
SourcingDiscover(discovery, faults) ==
    /\ sourcingRuns.pc = "discover"
    /\ LET run == sourcingRuns.runs[Len(sourcingRuns.runs)]
       IN  IF discovery.kind = "raise"
           THEN /\ sourcingRuns' = [SetRun(FailRun(run)) EXCEPT !.pc = "idle"]
                /\ UNCHANGED subs
           ELSE LET done == process_discoveries(discovery.found, run.source_id, faults,
                                                agents, subs)
                    created == done.submissions
                    finished ==
                        [run EXCEPT
                           !.discovered_count = Len(discovery.found),
                           !.new_count = Len(created),
                           !.skipped_count = Len(discovery.found) - Len(created),
                           !.created_submission_ids =
                               [i \in 1..Len(created) |-> created[i].pk],
                           !.success = TRUE, !.completed_at = TRUE,
                           !.outcome_writes = @ + 1]
                IN  /\ subs' = done.table
                    /\ sourcingRuns' =
                          [SetRun(finished) EXCEPT
                             !.pc = IF sourcingRuns.auto_enrich /\ created # <<>>
                                    THEN "enrich" ELSE "idle",
                             !.created = created]
    /\ UNCHANGED <<agents, childRows, procs, last, probe, enrichmentLogs>>

\* SourcingService.run, lines 219-221 and the except clause: EnrichmentService()
\* is built outside the loop that swallows exceptions
SourcingEnrich(service, extracts, scrapes) ==
    /\ sourcingRuns.pc = "enrich"
    /\ LET run == sourcingRuns.runs[Len(sourcingRuns.runs)]
       IN  IF service = "raise"
           THEN /\ sourcingRuns' = [SetRun(FailRun(run)) EXCEPT !.pc = "idle",
                                                               !.created = <<>>]
                /\ UNCHANGED subs
           ELSE /\ subs' = EnrichSubmissions(subs, sourcingRuns.created, extracts, scrapes)
                /\ sourcingRuns' = [sourcingRuns EXCEPT !.pc = "idle", !.created = <<>>]
    /\ UNCHANGED <<agents, childRows, procs, last, probe, enrichmentLogs>>

\* what EnrichmentService() does: returns the service, or raises
ServiceOutcomes == {"ok", "raise"}

SourcingExtracts ==
    {[kind |-> "none", product_website |-> UrlNoScheme, confidence |-> 0],
     [kind |-> "json", product_website |-> UrlFoo, confidence |-> 50]}

NextSourcing ==
    \/ sourcingRuns.pc = "idle" /\ Len(subs) < MaxLifecycleSubs /\ SubmitForm(NameZf, UrlFoo)
    \/ sourcingRuns.pc = "idle" /\ \E sid \in SubIds : ApproveCommand(sid, TRUE, "none")
    \/ sourcingRuns.pc = "idle" /\ \E sid \in SubIds : AdminRejectBulk({sid})
    \/ \E source_id \in SourceIds, auto_enrich \in BOOLEAN :
          SourcingStart(source_id, auto_enrich)
    \/ \E d \in Discoveries, f \in [1..MaxDiscovered -> CreateFaults] :
          SourcingDiscover(d, f)
    \/ \E service \in ServiceOutcomes,
          x \in [1..MaxDiscovered -> SourcingExtracts],
          s \in [1..MaxDiscovered -> DirectoryScrapes] : SourcingEnrich(service, x, s)

SpecSourcing == Init /\ [][NextSourcing]_vars


\* the run in flight, or the latest one
CurrentRun(s) == s.runs[Len(s.runs)]

\* the normalized websites a run must not create again: those of the directory
\* entries and of the submissions that are not REJECTED when the run starts
DedupSet ==
    {normalize_url(agents[a].website) : a \in AgentIds}
    \cup {normalize_url(subs[s].agent_website) :
             s \in {t \in SubIds : subs[t].status # REJECTED}}

NonBlocked(agent) == get_url_classification(agent.website, SettingsConfig) # "blocked"

RECURSIVE Kept(_, _)
\* candidate i of the list is kept: it is not blocked and its normalized URL is
\* neither in the dedup set nor that of an earlier kept candidate
Kept(found, i) ==
    /\ NonBlocked(found[i])
    /\ normalize_url(found[i].website) \notin DedupSet
    /\ \A j \in 1..(i - 1) :
          Kept(found, j) => normalize_url(found[j].website) # normalize_url(found[i].website)

\* the pks of the rows a step added to the submission table
NewRows == (1..Len(subs')) \ SubIds

\* C11: in one sourcing run, processing candidates in discovery order, a
\* non-blocked candidate yields a new submission if and only if its normalized
\* URL is not the normalized website of a directory entry, of a submission
\* that is not REJECTED at run start, or of an earlier kept candidate of the
\* run: the run adds one submission for each kept candidate and no other.
C11_NewSubmissionIffNotDuplicate ==
    [][sourcingRuns.pc = "discover"
       => \A d \in Discoveries, f \in [1..MaxDiscovered -> CreateFaults] :
             (d.kind = "ok" /\ SourcingDiscover(d, f))
             => LET kept == {i \in 1..Len(d.found) : Kept(d.found, i)}
                IN  /\ Cardinality(NewRows) = Cardinality(kept)
                    /\ \A i \in kept :
                          \E sid \in NewRows :
                             subs'[sid].agent_website = d.found[i].website]_vars

\* C16: the run record is created before discovery and its outcome is written
\* exactly once; a run recorded as successful is never rewritten afterwards.
C16_OutcomeWrittenOnce ==
    [][/\ sourcingRuns.pc = "discover"
          => (sourcingRuns.runs # <<>> /\ CurrentRun(sourcingRuns).outcome_writes = 0)
       /\ \A i \in 1..Len(sourcingRuns.runs) :
             /\ sourcingRuns'.runs[i].outcome_writes <= 1
             /\ (sourcingRuns.runs[i].completed_at /\ sourcingRuns.runs[i].success)
                => sourcingRuns'.runs[i] = sourcingRuns.runs[i]
       /\ (sourcingRuns.pc # "idle" /\ sourcingRuns'.pc = "idle")
          => CurrentRun(sourcingRuns').outcome_writes = 1]_vars

\* C17: when a run is finalized, discovered_count = new_count + skipped_count,
\* every blocked or duplicate candidate is counted in skipped_count and is no
\* submission, and created_submission_ids lists exactly the new_count
\* submissions the run created and persisted; a run whose discovery raised is
\* finalized with success = false and an error message and creates nothing.
C17_CountsMatchWhatWasCreated ==
    [][sourcingRuns.pc = "discover"
       => \A d \in Discoveries, f \in [1..MaxDiscovered -> CreateFaults] :
             SourcingDiscover(d, f)
             => LET run == CurrentRun(sourcingRuns')
                    ids == {run.created_submission_ids[i] :
                               i \in 1..Len(run.created_submission_ids)}
                    dropped == {i \in 1..Len(d.found) : ~Kept(d.found, i)}
                IN  IF d.kind = "raise"
                    THEN /\ run.completed_at /\ ~run.success /\ run.error_message # ""
                         /\ subs' = subs
                    ELSE /\ run.completed_at /\ run.success
                         /\ run.discovered_count = Len(d.found)
                         /\ run.discovered_count = run.new_count + run.skipped_count
                         /\ run.skipped_count >= Cardinality(dropped)
                         /\ \A sid \in NewRows :
                               \E i \in 1..Len(d.found) :
                                  /\ Kept(d.found, i)
                                  /\ subs'[sid].agent_website = d.found[i].website
                         /\ Len(run.created_submission_ids) = run.new_count
                         /\ Cardinality(ids) = run.new_count
                         /\ ids = NewRows]_vars

\* C18: every submission a sourcing run creates starts PENDING with source
\* AUTO, carries its url_classification and the run's source_id as sourcing
\* metadata, and has needs_manual_review = true exactly when the
\* classification of its URL is non_root or github.
C18_SourcedSubmissionStartsPending ==
    [][sourcingRuns.pc = "discover"
       => \A sid \in NewRows :
             LET row == subs'[sid]
                 tag == get_url_classification(row.agent_website, SettingsConfig)
             IN  /\ row.status = PENDING
                 /\ row.source = "AUTO"
                 /\ row.agent = NoAgent
                 /\ row.enrichment_data.present
                 /\ row.enrichment_data.sourcing_metadata =
                       [url_classification |-> tag,
                        source_id |-> CurrentRun(sourcingRuns).source_id]
                 /\ row.needs_manual_review = (tag \in {"non_root", "github"})]_vars

\* C18, its case: a run has created two submissions, one for a GitHub URL that
\* needs manual review and one for an aggregator URL that does not
C18_Witness ==
    /\ sourcingRuns.pc = "idle"
    /\ sourcingRuns.runs # <<>>
    /\ CurrentRun(sourcingRuns).new_count = 2
    /\ \E a, b \in SubIds :
          /\ subs[a].source = "AUTO" /\ subs[a].agent_website = UrlGithub
          /\ subs[a].needs_manual_review /\ subs[a].status = PENDING
          /\ subs[b].source = "AUTO" /\ subs[b].agent_website = UrlAggregator
          /\ ~subs[b].needs_manual_review
          /\ subs[b].enrichment_data.sourcing_metadata.url_classification = "aggregator"


\* C21: every transition of a submission to REJECTED stamps the review
\* timestamp in the same step and creates no directory entry, so in every
\* reachable state a REJECTED submission has reviewed_at set.
C21_RejectedIsStamped ==
    \A sid \in SubIds : subs[sid].status = REJECTED => subs[sid].reviewed_at


(***************************************************************************)
(* SpecSourced: one submission, made by the form or by a sourcing run of   *)
(* one candidate, under the batch commands and the admin approve view.     *)
(***************************************************************************)
SourcedDiscoveries ==
    {[kind |-> "ok", found |-> <<DiscoveredAgent(NameZf, w)>>] :
        w \in {UrlFooWww, UrlAggregator, UrlGithub, UrlBarDocs}}

\* manage.py enrich_submissions without --force, on any submission it selects
EnrichBatch ==
    \E sid \in SubIds :
       \E x \in ExtractsMet(sid, TRUE, SourcingExtracts), s \in DirectoryScrapes :
          EnrichCommand(sid, FALSE, x, s)

NextSourced ==
    \/ subs = <<>> /\ sourcingRuns.runs = <<>> /\ SubmitForm(NameZf, UrlFoo)
    \/ subs = <<>> /\ \E auto_enrich \in BOOLEAN : SourcingStart("serp", auto_enrich)
    \/ \E d \in SourcedDiscoveries : SourcingDiscover(d, <<"none", "none">>)
    \/ \E x \in SourcingExtracts, s \in DirectoryScrapes :
          SourcingEnrich("ok", <<x, x>>, <<s, s>>)
    \/ sourcingRuns.pc = "idle" /\ EnrichBatch
    \/ sourcingRuns.pc = "idle"
       /\ \E sid \in SubIds, auto_apply \in BOOLEAN, g \in GatewayOutcomes :
             ReviewCommand(sid, auto_apply, FALSE, g)
    \/ sourcingRuns.pc = "idle"
       /\ \E sid \in SubIds :
             \E x \in ExtractsMet(sid, ApproveEnriches(subs[sid]), SourcingExtracts),
                s \in ScrapesMet(sid, ApproveEnriches(subs[sid]), DirectoryScrapes) :
                AdminApprove(sid, x, s, "none")
    \/ sourcingRuns.pc = "idle"
       /\ \E sid \in SubIds, skip \in BOOLEAN : ApproveCommand(sid, skip, "none")

SpecSourced == Init /\ [][NextSourced]_vars

\* the batch enrichment command is run again and again
SpecSourcedFair == SpecSourced /\ WF_vars(EnrichBatch)

\* the submission was made by sourcing and flagged for its classification
FlaggedBySourcing(sub) ==
    /\ sub.source = "AUTO"
    /\ sub.enrichment_data.present
    /\ sub.enrichment_data.sourcing_metadata.url_classification \in {"non_root", "github"}
    /\ sub.needs_manual_review

\* C27: a submission that sourcing flagged needs_manual_review because its URL
\* is non_root or github is never approved or rejected by a later
\* review_submission with auto_apply: the review leaves its status as it was
\* and does not clear the flag.
C27_SourcingFlagSurvivesReview ==
    [][\A sid \in SubIds :
          (/\ last'.op = "review" /\ last'.sid = sid
           /\ FlaggedBySourcing(subs[sid])
           /\ \E auto_apply \in BOOLEAN, g \in GatewayOutcomes :
                 ReviewCommand(sid, auto_apply, FALSE, g))
          => /\ subs'[sid].status = subs[sid].status
             /\ subs'[sid].needs_manual_review]_vars


\* C23: approving a PENDING submission that has never been enriched, one
\* created by sourcing that carries only sourcing metadata included, first
\* runs enrichment on it and, when that enrichment succeeds, creates the
\* directory entry and marks the submission APPROVED.
C23_ApprovalEnrichesFirst ==
    [][\A sid \in SubIds :
          (/\ last'.op = "approve" /\ last'.sid = sid
           /\ subs[sid].status = PENDING
           /\ ~subs[sid].enrichment_data.scraped)
          => /\ subs'[sid].enrichment_data.scraped
             /\ subs'[sid].enrichment_data.success
                => /\ subs'[sid].status = APPROVED
                   /\ subs'[sid].agent \in 1..Len(agents')
                   /\ Len(agents') = Len(agents) + 1]_vars

\* C29: every PENDING submission created by a sourcing run without
\* auto-enrichment is selected by a later batch enrichment run without force,
\* so that it eventually has an enrichment snapshot carrying a success flag
\* (or has left PENDING by another handler).
C29_SourcedIsEventuallyEnriched ==
    \A sid \in 1..MaxLifecycleSubs :
       (/\ sid \in SubIds
        /\ sourcingRuns.pc = "idle"
        /\ sourcingRuns.runs # <<>>
        /\ ~sourcingRuns.auto_enrich
        /\ subs[sid].source = "AUTO"
        /\ subs[sid].status = PENDING
        /\ ~subs[sid].enrichment_data.scraped)
       ~> (sid \in SubIds
           /\ (subs[sid].enrichment_data.scraped \/ subs[sid].status # PENDING))


\* the position of kept candidate i among the kept candidates of the list
KeptPosition(found, i) == Cardinality({j \in 1..i : Kept(found, j)})

\* C24: in a sourcing run one bad candidate never aborts the batch: a failure
\* creating the submission of one surviving candidate does not keep the other
\* surviving candidates from being created and persisted, and a failure
\* enriching one new submission does not stop the enrichment of the others.
C24_BadCandidateDoesNotAbortBatch ==
    [][/\ sourcingRuns.pc = "discover"
          => \A d \in Discoveries, f \in [1..MaxDiscovered -> CreateFaults] :
                (d.kind = "ok" /\ SourcingDiscover(d, f))
                => \A i \in 1..Len(d.found) :
                      (Kept(d.found, i) /\ f[KeptPosition(d.found, i)] = "none")
                      => \E sid \in NewRows :
                            subs'[sid].agent_website = d.found[i].website
       /\ sourcingRuns.pc = "enrich"
          => \A x \in [1..MaxDiscovered -> SourcingExtracts],
                s \in [1..MaxDiscovered -> DirectoryScrapes] :
                SourcingEnrich("ok", x, s)
                => \A k \in 1..Len(sourcingRuns.created) :
                      sourcingRuns.created[k].pk \in SubIds
                      => subs'[sourcingRuns.created[k].pk].enrichment_data.scraped]_vars


(***************************************************************************)
(* SpecReviewRace: review_submission stepped through its load and its      *)
(* save, with an approve or a reject of the same submission in between.    *)
(***************************************************************************)
\* review_submissions / review_submissions_batch_task: the submission is loaded
\* and handed to review_submission, which then waits for the gateway
ReviewLoad(p, sid) ==
    /\ procs[p].pc = "idle"
    /\ sid \in SubIds
    /\ subs[sid].status = PENDING
    /\ subs[sid].enrichment_data.present
    /\ SetProc(p, "review", "review", sid, subs[sid], NoAgent)
    /\ UNCHANGED <<subs, agents, childRows, last>>
    /\ UNCHANGED <<sourcingRuns, probe, enrichmentLogs>>

\* review_submission, lines 243-278: the gateway answers and submission.save()
\* writes every column of the object loaded earlier
ReviewSave(p, auto_apply, gateway) ==
    /\ procs[p].pc = "review"
    /\ SetSub(procs[p].sid,
              review_submission(procs[p].mem, auto_apply, gateway, NoThreshold))
    /\ last' = ReviewOutcome(procs[p].sid, auto_apply)
    /\ Finish(p)
    /\ UNCHANGED <<agents, childRows>>
    /\ UNCHANGED <<sourcingRuns, probe, enrichmentLogs>>

NextReviewRace ==
    \/ Len(subs) < MaxLifecycleSubs /\ SubmitForm(NameZf, UrlFoo)
    \/ \E sid \in SubIds, s \in DirectoryScrapes : EnrichCommand(sid, FALSE, NoExtract, s)
    \/ \E sid \in SubIds : ReviewLoad(1, sid)
    \/ \E auto_apply \in BOOLEAN, g \in GatewayOutcomes : ReviewSave(1, auto_apply, g)
    \/ \E sid \in SubIds : AdminRejectSingle(sid)
    \/ \E sid \in SubIds : AdminApprove(sid, NoExtract, NoScrape, "none")

SpecReviewRace == Init /\ [][NextReviewRace]_vars

\* C28: when review_submission runs concurrently with an approve or reject of
\* the same submission, the terminal status, the linked entry and the reviewer
\* stamps written by the approve or reject are not overwritten by the
\* review's later save.
C28_ReviewKeepsConcurrentDecision ==
    [][\A p \in Procs :
          (/\ procs[p].pc = "review"
           /\ subs[procs[p].sid].status # PENDING
           /\ \E auto_apply \in BOOLEAN, g \in GatewayOutcomes :
                 ReviewSave(p, auto_apply, g))
          => LET sid == procs[p].sid
             IN  /\ subs'[sid].status = subs[sid].status
                 /\ subs'[sid].agent = subs[sid].agent
                 /\ subs'[sid].reviewer = subs[sid].reviewer
                 /\ subs'[sid].reviewed_at = subs[sid].reviewed_at]_vars


(***************************************************************************)
(* Extracted content: name verification and the descriptions of the entry  *)
(***************************************************************************)
\* what a key of the extracted JSON can hold
ContentValues ==
    {AbsentValue, NullValue, TextValue(<<>>), TextValue(DescWithName), TextValue(DescOther)}

\* the main scrape with the JSON it extracted
ContentScrapes ==
    {[kind |-> "raise", features |-> 0]}
    \cup [kind : {"ok"}, features : {0, 1},
          short_description : ContentValues, description : ContentValues]

\* one submission, enriched by the command or by the approval, then approved
NextContent ==
    \/ /\ Len(subs) < MaxLifecycleSubs
       /\ \E name \in {NameZf, NameHyphen} : SubmitForm(name, UrlFoo)
    \/ \E sid \in SubIds, force \in BOOLEAN, s \in ContentScrapes :
           EnrichCommand(sid, force, NoExtract, s)
    \/ \E sid \in SubIds :
           \E s \in ScrapesMet(sid, ApproveEnriches(subs[sid]), ContentScrapes) :
               AdminApprove(sid, NoExtract, s, "none")
    \/ \E sid \in SubIds : ApproveCommand(sid, TRUE, "none")

SpecContent == Init /\ [][NextContent]_vars

\* C30: enrich_submission never changes the submitted name: every step leaves
\* agent_name as it was, and an enrichment whose extracted short description is
\* a non-empty text records in _name_verification whether the name occurs in
\* it, case-insensitively, and never asks for the name to be updated
C30_EnrichmentKeepsName ==
    [][\A sid \in SubIds :
          /\ subs'[sid].agent_name = subs[sid].agent_name
          /\ (/\ last'.op = "enrich" /\ last'.sid = sid
              /\ subs'[sid].enrichment_data.success
              /\ Truthy(subs'[sid].enrichment_data.short_description))
             => LET data == subs'[sid].enrichment_data
                IN  /\ data.name_verification.present
                    /\ ~data.name_verification.should_update
                    /\ data.name_verification.matches
                         = Contains(Lower(data.short_description.text),
                                    Lower(subs[sid].agent_name))]_vars

\* an enrichment has recorded that the name does not occur in the description
C30_Witness ==
    /\ last.op = "enrich"
    /\ last.sid \in SubIds
    /\ subs[last.sid].agent_name = NameZf
    /\ subs[last.sid].enrichment_data.short_description = TextValue(DescOther)
    /\ subs[last.sid].enrichment_data.name_verification.present
    /\ ~subs[last.sid].enrichment_data.name_verification.matches


\* the text the approval is to give the entry for a key of the content: the
\* extracted text when there is one, the submitter's description otherwise
DescriptionFor(value, sub) ==
    IF value.kind = "text" THEN value.text ELSE sub.agent_description

\* C26: an approval of a PENDING submission whose enrichment succeeded does not
\* fail, whatever the content holds for the descriptions: the entry it creates
\* takes short_description and description from the content when it has them
\* and from the submitter's description when the key is absent or null
C26_DescriptionFallsBack ==
    [][\A sid \in SubIds :
          (/\ last'.op = "approve" /\ last'.sid = sid
           /\ subs[sid].status = PENDING
           /\ subs'[sid].enrichment_data.success)
          => /\ last'.error = "none"
             /\ subs'[sid].agent \in 1..Len(agents')
             /\ LET entry == agents'[subs'[sid].agent]
                    content == subs'[sid].enrichment_data
                IN  /\ entry.short_description
                         = DescriptionFor(content.short_description, subs[sid])
                    /\ entry.description
                         = DescriptionFor(content.description, subs[sid])]_vars


(***************************************************************************)
(* Enrichment of a directory entry and its audit log                       *)
(***************************************************************************)
MaxLogs == 2

\* ENRICHABLE_FIELDS, as far as the entry rows carry them
ENRICHABLE_FIELDS == {"short_description", "description", "is_open_source", "features"}

\* the fields argument of enrich_agent: None is <<>>, a list is <<set>>
NoFields == <<>>
FieldSelections ==
    {NoFields, <<{"short_description"}>>, <<{"is_open_source", "features"}>>, <<{"name"}>>}

\* EnrichmentService._capture_agent_state
capture_agent_state(aid) ==
    [short_description |-> agents[aid].short_description,
     description |-> agents[aid].description,
     is_open_source |-> agents[aid].is_open_source,
     features |-> aid \in childRows]

\* _apply_fields_to_agent assigning every extracted key, empty or not
apply_fields_blanking(agent, result, fields) ==
    LET Sets(f) == f \in fields /\ result[f].kind # "absent"
        applied == {f \in {"short_description", "description", "is_open_source"} : Sets(f)}
                   \cup (IF "features" \in fields /\ result.features > 0
                         THEN {"features"} ELSE {})
    IN  [agent |-> [agent EXCEPT
                       !.short_description =
                           IF Sets("short_description")
                           THEN Truncate(result.short_description.text, ShortDescriptionLength)
                           ELSE @,
                       !.description =
                           IF Sets("description") THEN result.description.text ELSE @,
                       !.is_open_source =
                           IF Sets("is_open_source") THEN result.is_open_source ELSE @],
         applied |-> applied]

\* EnrichmentService._apply_fields_to_agent: the entry after agent.save() and
\* the names it returns
apply_fields_to_agent(agent, result, fields) ==
    LET \* field_name in fields and field_name in content, transform(...) is not None
        Sets(f) ==
            /\ f \in fields
            /\ IF f = "is_open_source"
               THEN result[f].kind \notin {"absent", "null"}
               ELSE Truthy(result[f])
        applied == {f \in {"short_description", "description", "is_open_source"} : Sets(f)}
                   \cup (IF "features" \in fields /\ result.features > 0
                         THEN {"features"} ELSE {})
    IN  [agent |-> [agent EXCEPT
                       !.short_description =
                           IF Sets("short_description")
                           THEN Truncate(result.short_description.text, ShortDescriptionLength)
                           ELSE @,
                       !.description =
                           IF Sets("description") THEN result.description.text ELSE @,
                       !.is_open_source =
                           IF Sets("is_open_source") THEN result.is_open_source ELSE @],
         applied |-> applied]

\* a row of EnrichmentLog
NewLog(aid, previous_data, result, applied_fields) ==
    [agent |-> aid, previous_data |-> previous_data, extracted_data |-> result,
     applied_fields |-> applied_fields, success |-> result.success,
     error_message |-> result.error_message]

\* EnrichmentService.enrich_agent as enrich_agent_task, the admin's enrich view
\* and manage.py enrich_agents call it: each catches what it raises
EnrichAgent(aid, selection, scrape, fault) ==
    /\ aid \in AgentIds
    /\ Len(enrichmentLogs) < MaxLogs
    /\ LET fields_to_update == IF selection # NoFields /\ selection[1] # {}
                               THEN selection[1] ELSE ENRICHABLE_FIELDS
           previous_data == capture_agent_state(aid)
           result == enrich(scrape)
           out == apply_fields_to_agent(agents[aid], result, fields_to_update)
       IN  IF fields_to_update \ ENRICHABLE_FIELDS # {}
           THEN \* raise EnrichmentError("Invalid fields")
                /\ last' = Outcome("enrich_agent", aid, "EnrichmentError", NoAgent)
                /\ UNCHANGED <<agents, childRows, enrichmentLogs>>
           ELSE IF ~result.success
           THEN /\ enrichmentLogs' = Append(enrichmentLogs,
                                           NewLog(aid, previous_data, result, {}))
                /\ last' = Outcome("enrich_agent", aid, "none", NoAgent)
                /\ UNCHANGED <<agents, childRows>>
           ELSE IF fault # "none"
           THEN \* the exception leaves transaction.atomic() before the log is created
                /\ last' = Outcome("enrich_agent", aid, "DatabaseError", NoAgent)
                /\ UNCHANGED <<agents, childRows, enrichmentLogs>>
           ELSE /\ agents' = [agents EXCEPT ![aid] = out.agent]
                /\ childRows' = IF "features" \in out.applied
                                THEN childRows \cup {aid} ELSE childRows
                /\ enrichmentLogs' = Append(enrichmentLogs,
                                           NewLog(aid, previous_data, result, out.applied))
                /\ last' = Outcome("enrich_agent", aid, "none", NoAgent)
    /\ UNCHANGED <<subs, procs, sourcingRuns, probe>>

\* what the scrape of a published entry's website extracts
EntryValues == {AbsentValue, NullValue, TextValue(<<>>), TextValue(DescOther)}
EntryScrapes ==
    {[kind |-> "raise", features |-> 0]}
    \cup [kind : {"ok"}, features : {0, 1},
          short_description : EntryValues, description : {AbsentValue, TextValue(DescWithName)},
          is_open_source : {AbsentValue, NullValue, BoolValue(FALSE), BoolValue(TRUE)}]

\* one submission is enriched and approved; its entry is then enriched again
\* and again
NextEntry ==
    \/ /\ Len(subs) < MaxLifecycleSubs
       /\ SubmitForm(NameZf, UrlFoo)
    \/ \E sid \in SubIds, s \in {[kind |-> "ok", features |-> 0],
                                 [kind |-> "ok", features |-> 1,
                                  short_description |-> TextValue(DescWithName),
                                  is_open_source |-> BoolValue(TRUE)]} :
           EnrichCommand(sid, FALSE, NoExtract, s)
    \/ \E sid \in SubIds : AdminApprove(sid, NoExtract, NoScrape, "none")
    \/ \E aid \in AgentIds, selection \in FieldSelections, s \in EntryScrapes,
          fault \in {"none", "save"} :
           EnrichAgent(aid, selection, s, fault)

SpecEntry == Init /\ [][NextEntry]_vars

\* C22: every call of enrich_agent on an entry adds exactly one row to the
\* EnrichmentLog table, the row holds the entry's state before the call, and
\* the rows that were there are left as they were
C22_EveryEnrichmentIsLogged ==
    [][\A aid \in AgentIds :
          (last'.op = "enrich_agent" /\ last'.sid = aid
           /\ \E selection \in FieldSelections, s \in EntryScrapes, fault \in {"none", "save"} :
                  EnrichAgent(aid, selection, s, fault))
          => /\ Len(enrichmentLogs') = Len(enrichmentLogs) + 1
             /\ SubSeq(enrichmentLogs', 1, Len(enrichmentLogs)) = enrichmentLogs
             /\ enrichmentLogs'[Len(enrichmentLogs')].agent = aid
             /\ enrichmentLogs'[Len(enrichmentLogs')].previous_data
                    = capture_agent_state(aid)]_vars


\* the extracted value for a field is one enrich_agent applies: a non-empty
\* text, or for the boolean is_open_source anything but null
NonEmpty(f, value) ==
    IF f = "is_open_source" THEN value.kind = "bool" ELSE Truthy(value)

\* what the entry holds in field f after the extracted value was assigned
Assigned(f, value) ==
    CASE f = "is_open_source" -> value
      [] f = "short_description" -> Truncate(value.text, ShortDescriptionLength)
      [] OTHER -> value.text

====
